---------------------------- MODULE Spec2Model ----------------------------
(***************************************************************************)
(* ParlaPlate: the conversational gating core (parlaplate/agent.py), the   *)
(* structured-output extractor (parlaplate/utils.py), the candidate        *)
(* ranker (parlaplate/match.py) and the session loop                       *)
(* (app_streamlit/app.py), as a state machine.                             *)
(*                                                                         *)
(* Text is modelled character by character on TLC strings (Len, SubSeq,   *)
(* \o).  Letters outside ASCII are written as "^" followed by their base   *)
(* letter ("^i" is the dotless i, "^c" c-cedilla, "^v" the check mark);   *)
(* the texts of the model contain the same words of the agent's word lists *)
(* as the originals.  The backquote is written "~".                        *)
(*                                                                         *)
(* An operator that reads an argument or an intermediate result more than  *)
(* once binds it to a name first, as the only element of a set             *)
(* (Only({body : x \in {value}})), so that the value is computed once.     *)
(***************************************************************************)
EXTENDS Integers, Sequences, FiniteSets, TLC

\* the element of a one-element set
Only(S) == CHOOSE x \in S : TRUE

\* the sequence q with every element computed, once
Tuple(q) == q \o <<>>

\* the function f with every value computed, once
Table(f) == f @@ <<>>

(***************************************************************************)
(* Python str primitives                                                   *)
(***************************************************************************)
\* s[i-1:j] of Python, indices from 1, clipped to the text
Sub(s, i, j) ==
    IF i > Len(s) \/ j < i THEN "" ELSE SubSeq(s, i, IF j > Len(s) THEN Len(s) ELSE j)

\* the character at index i, "" outside the text
Char(s, i) == IF i >= 1 /\ i <= Len(s) THEN SubSeq(s, i, i) ELSE ""

\* t in s, for a non-empty t
Contains(s, t) ==
    \E a \in {s}, b \in {t} :
        \E i \in 1..(Len(a) - Len(b) + 1) : SubSeq(a, i, i + Len(b) - 1) = b

StartsWith(s, p) == Len(p) <= Len(s) /\ SubSeq(s, 1, Len(p)) = p

EndsWith(s, p) == Len(p) <= Len(s) /\ SubSeq(s, Len(s) - Len(p) + 1, Len(s)) = p

UpperLetters == "ABCDEFGHIJKLMNOPQRSTUVWXYZ"

LowerLetters == "abcdefghijklmnopqrstuvwxyz"

UpperSet == {SubSeq(UpperLetters, i, i) : i \in 1..Len(UpperLetters)}

LowerChar(c) ==
    IF c \in UpperSet
    THEN Only({SubSeq(LowerLetters, i, i) :
                  i \in {j \in 1..Len(UpperLetters) : SubSeq(UpperLetters, j, j) = c}})
    ELSE c

\* str.lower(), character by character (the text is halved to keep the
\* evaluation shallow)
RECURSIVE lower(_)
lower(s) ==
    Only({IF Len(a) = 0 THEN ""
          ELSE IF Len(a) = 1 THEN LowerChar(a)
          ELSE lower(SubSeq(a, 1, Len(a) \div 2))
                  \o lower(SubSeq(a, Len(a) \div 2 + 1, Len(a))) :
          a \in {s}})

\* white space of str.strip() and of the regular expressions' \s
IsSpace(c) == c \in {" ", "\n", "\t", "\r", "\f"}

\* white space of the JSON grammar
IsWs(c) == c \in {" ", "\n", "\t", "\r"}

IsDigit(c) == c \in {"0", "1", "2", "3", "4", "5", "6", "7", "8", "9"}

\* the smallest index >= i whose character is in the set cs, Len(s)+1 if none
FindFirst(s, i, cs) ==
    Only({IF b > Len(a) THEN Len(a) + 1
          ELSE CHOOSE j \in b..(Len(a) + 1) :
                  /\ j = Len(a) + 1 \/ SubSeq(a, j, j) \in c
                  /\ \A k \in b..(j - 1) : SubSeq(a, k, k) \notin c :
          a \in {s}, b \in {i}, c \in {cs}})

\* the smallest index >= i whose character is not in the set cs, Len(s)+1 if none
SkipAll(s, i, cs) ==
    Only({IF b > Len(a) THEN Len(a) + 1
          ELSE CHOOSE j \in b..(Len(a) + 1) :
                  /\ j = Len(a) + 1 \/ SubSeq(a, j, j) \notin c
                  /\ \A k \in b..(j - 1) : SubSeq(a, k, k) \in c :
          a \in {s}, b \in {i}, c \in {cs}})

\* the index after the JSON white space that starts at i
SkipSpace(s, i) == SkipAll(s, i, {" ", "\n", "\t", "\r"})

\* the same for the regular expressions' \s*
SkipReSpace(s, i) == SkipAll(s, i, {" ", "\n", "\t", "\r", "\f"})

\* the index after the run of digits that starts at i
SkipDigits(s, i) == SkipAll(s, i, {"0", "1", "2", "3", "4", "5", "6", "7", "8", "9"})

\* str.lstrip(), str.rstrip(), str.strip()
lstrip(s) ==
    Only({SubSeq(a, SkipReSpace(a, 1), Len(a)) : a \in {s}})

rstrip(s) ==
    Only({IF \A i \in 1..Len(a) : IsSpace(SubSeq(a, i, i)) THEN ""
          ELSE SubSeq(a, 1, CHOOSE i \in 1..Len(a) :
                               /\ ~IsSpace(SubSeq(a, i, i))
                               /\ \A j \in (i + 1)..Len(a) : IsSpace(SubSeq(a, j, j))) :
          a \in {s}})

strip(s) == rstrip(lstrip(s))

\* " ".join(parts), sep.join(parts)
RECURSIVE Join(_, _)
Join(parts, sep) ==
    Only({IF Len(p) = 0 THEN ""
          ELSE IF Len(p) = 1 THEN p[1]
          ELSE p[1] \o d \o Join(Tail(p), d) :
          p \in {parts}, d \in {sep}})

(***************************************************************************)
(* json.loads: a recursive-descent parser over the characters of the text. *)
(* A parsed value is a record [t, s, keys, items]: t is the Python type     *)
(* ("dict", "list", "str", "num", "bool", "none"), s the text of a scalar,  *)
(* items the elements of a list or the values of a dict, keys the dict's    *)
(* keys.  A parse result is [ok, pos, val], pos the index after the value.  *)
(***************************************************************************)
JVal(t, s, keys, items) == [t |-> t, s |-> s, keys |-> keys, items |-> items]

JScalar(t, s) == JVal(t, s, <<>>, <<>>)

JFail == [ok |-> FALSE, pos |-> 0, val |-> JScalar("none", "")]

JOk(pos, val) == [ok |-> TRUE, pos |-> pos, val |-> val]

\* the character an escape sequence stands for ("" for an invalid escape);
\* \b and \uXXXX are written "^b" and "^u"
Unescape(e) ==
    IF e \in {"\"", "\\", "/"} THEN e
    ELSE IF e = "n" THEN "\n"
    ELSE IF e = "t" THEN "\t"
    ELSE IF e = "r" THEN "\r"
    ELSE IF e = "f" THEN "\f"
    ELSE IF e = "b" THEN "^b"
    ELSE IF e = "u" THEN "^u"
    ELSE ""

\* json.decoder.py_scanstring, strict: the body of a string literal from i on
RECURSIVE ScanString(_, _, _)
ScanString(s, i, acc) ==
    Only({IF b > Len(a) THEN JFail
          ELSE IF SubSeq(a, b, b) = "\"" THEN JOk(b + 1, JScalar("str", r))
          ELSE IF SubSeq(a, b, b) \in {"\n", "\t", "\r", "\f"} THEN JFail
          ELSE IF SubSeq(a, b, b) # "\\"
          THEN Only({ScanString(a, j, r \o SubSeq(a, b, j - 1)) :
                        j \in {FindFirst(a, b, {"\"", "\\", "\n", "\t", "\r", "\f"})}})
          ELSE IF b + 1 > Len(a) \/ Unescape(SubSeq(a, b + 1, b + 1)) = "" THEN JFail
          ELSE IF SubSeq(a, b + 1, b + 1) = "u"
          THEN IF b + 5 <= Len(a) THEN ScanString(a, b + 6, r \o "^u") ELSE JFail
          ELSE ScanString(a, b + 2, r \o Unescape(SubSeq(a, b + 1, b + 1))) :
          a \in {s}, b \in {i}, r \in {acc}})

\* json.scanner NUMBER_RE: (-?(?:0|[1-9]\d*))(\.\d+)?([eE][-+]?\d+)?
\* the index after the integer part that starts at i, 0 if there is none
IntEnd(s, i) ==
    Only({LET j == IF Char(a, b) = "-" THEN b + 1 ELSE b IN
          IF j > Len(a) \/ ~IsDigit(Char(a, j)) THEN 0
          ELSE IF Char(a, j) = "0" THEN j + 1
          ELSE SkipDigits(a, j) :
          a \in {s}, b \in {i}})

\* the index after the optional fraction that starts at i
FracEnd(s, i) ==
    Only({IF b + 1 <= Len(a) /\ Char(a, b) = "." /\ IsDigit(Char(a, b + 1))
          THEN SkipDigits(a, b + 1) ELSE b :
          a \in {s}, b \in {i}})

\* the index after the optional exponent that starts at i
ExpEnd(s, i) ==
    Only({LET k == IF Char(a, b + 1) \in {"+", "-"} THEN b + 2 ELSE b + 1 IN
          IF b <= Len(a) /\ Char(a, b) \in {"e", "E"} /\ k <= Len(a) /\ IsDigit(Char(a, k))
          THEN SkipDigits(a, k) ELSE b :
          a \in {s}, b \in {i}})

ScanNumber(s, i) ==
    Only({Only({IF n = 0 THEN JFail
                ELSE Only({JOk(e, JScalar("num", Sub(a, b, e - 1))) :
                              e \in {ExpEnd(a, FracEnd(a, n))}}) :
                n \in {IntEnd(a, b)}}) :
          a \in {s}, b \in {i}})

\* dict[key] = val: a repeated key keeps its place and takes the new value
DictPut(d, key, val) ==
    IF \E n \in 1..Len(d.keys) : d.keys[n] = key
    THEN LET n == CHOOSE n \in 1..Len(d.keys) : d.keys[n] = key
         IN  [d EXCEPT !.items[n] = val]
    ELSE [d EXCEPT !.keys = Append(@, key), !.items = Append(@, val)]

RECURSIVE ScanOnce(_, _), ScanArrayItems(_, _, _), ScanObjectPairs(_, _, _)

\* json.scanner.py_make_scanner._scan_once: the value that starts at i
ScanOnce(s, i) ==
    Only({LET c == Char(a, b) IN
          IF b > Len(a) THEN JFail
          ELSE IF c = "\"" THEN ScanString(a, b + 1, "")
          ELSE IF c = "{" THEN
               Only({IF j <= Len(a) /\ Char(a, j) = "}"
                     THEN JOk(j + 1, JVal("dict", "", <<>>, <<>>))
                     ELSE ScanObjectPairs(a, j, JVal("dict", "", <<>>, <<>>)) :
                     j \in {SkipSpace(a, b + 1)}})
          ELSE IF c = "[" THEN
               Only({IF j <= Len(a) /\ Char(a, j) = "]"
                     THEN JOk(j + 1, JVal("list", "", <<>>, <<>>))
                     ELSE ScanArrayItems(a, j, <<>>) :
                     j \in {SkipSpace(a, b + 1)}})
          ELSE IF Sub(a, b, b + 3) = "null" THEN JOk(b + 4, JScalar("none", "None"))
          ELSE IF Sub(a, b, b + 3) = "true" THEN JOk(b + 4, JScalar("bool", "True"))
          ELSE IF Sub(a, b, b + 4) = "false" THEN JOk(b + 5, JScalar("bool", "False"))
          ELSE IF c = "-" \/ IsDigit(c) THEN
               Only({IF n.ok THEN n
                     ELSE IF Sub(a, b, b + 8) = "-Infinity"
                          THEN JOk(b + 9, JScalar("num", "-inf"))
                     ELSE JFail :
                     n \in {ScanNumber(a, b)}})
          ELSE IF Sub(a, b, b + 2) = "NaN" THEN JOk(b + 3, JScalar("num", "nan"))
          ELSE IF Sub(a, b, b + 7) = "Infinity" THEN JOk(b + 8, JScalar("num", "inf"))
          ELSE JFail :
          a \in {s}, b \in {i}})

\* json.decoder.JSONArray: the elements from i on, after "[" and white space
ScanArrayItems(s, i, acc) ==
    Only({Only({
             IF ~v.ok THEN JFail
             ELSE Only({IF j > Len(a) THEN JFail
                        ELSE IF Char(a, j) = "]"
                             THEN JOk(j + 1, JVal("list", "", <<>>, Append(r, v.val)))
                        ELSE IF Char(a, j) # "," THEN JFail
                        ELSE ScanArrayItems(a, SkipSpace(a, j + 1), Append(r, v.val)) :
                        j \in {SkipSpace(a, v.pos)}}) :
             v \in {ScanOnce(a, b)}}) :
          a \in {s}, b \in {i}, r \in {acc}})

\* json.decoder.JSONObject: the pairs from i on, after "{" and white space
ScanObjectPairs(s, i, d) ==
    Only({IF b > Len(a) \/ Char(a, b) # "\"" THEN JFail
          ELSE Only({
             IF ~k.ok THEN JFail
             ELSE Only({
                IF c > Len(a) \/ Char(a, c) # ":" THEN JFail
                ELSE Only({
                   IF ~v.ok THEN JFail
                   ELSE Only({IF j > Len(a) THEN JFail
                              ELSE IF Char(a, j) = "}" THEN JOk(j + 1, d2)
                              ELSE IF Char(a, j) # "," THEN JFail
                              ELSE ScanObjectPairs(a, SkipSpace(a, j + 1), d2) :
                              j \in {SkipSpace(a, v.pos)},
                              d2 \in {DictPut(r, k.val.s, v.val)}}) :
                   v \in {ScanOnce(a, SkipSpace(a, c + 1))}}) :
                c \in {SkipSpace(a, k.pos)}}) :
             k \in {ScanString(a, b + 1, "")}}) :
          a \in {s}, b \in {i}, r \in {d}})

\* json.loads(s): ok is FALSE where Python raises JSONDecodeError
json_loads(s) ==
    Only({Only({IF v.ok /\ SkipSpace(a, v.pos) = Len(a) + 1 THEN v ELSE JFail :
                v \in {ScanOnce(a, SkipSpace(a, 1))}}) :
          a \in {s}})

(***************************************************************************)
(* utils.extract_json_from_response                                        *)
(* An Optional[str] is a record [found, s]; found = FALSE is None.         *)
(***************************************************************************)
NoneStr == [found |-> FALSE, s |-> ""]

Some(s) == [found |-> TRUE, s |-> s]

\* One bracket-matching loop (utils.py 183-201 for "[" "]", 207-225 for
\* "{" "}"): start = 0 stands for -1, count is the depth counter.  The
\* characters that are neither open nor close change nothing and are skipped.
RECURSIVE ScanBalanced(_, _, _, _, _, _)
ScanBalanced(text, i, open, close, start, count) ==
    Only({LET c == Char(t, b) IN
          IF b > Len(t) THEN NoneStr
          ELSE IF c \notin {o, e}
          THEN ScanBalanced(t, FindFirst(t, b, {o, e}), o, e, st, n)
          ELSE IF c = o
          THEN ScanBalanced(t, b + 1, o, e, IF st = 0 THEN b ELSE st, n + 1)
          ELSE IF n - 1 = 0 /\ st # 0
          THEN IF json_loads(Sub(t, st, b)).ok
               THEN Some(Sub(t, st, b))
               ELSE ScanBalanced(t, b + 1, o, e, 0, 0)
          ELSE ScanBalanced(t, b + 1, o, e, st, n - 1) :
          t \in {text}, b \in {i}, o \in {open}, e \in {close},
          st \in {start}, n \in {count}})

\* the indices k > i of a "}" that \s*\] follows
ArrayEnds(text, i) ==
    {k \in (i + 1)..Len(text) :
        /\ Char(text, k) = "}"
        /\ Only({Char(text, j) = "]" : j \in {SkipReSpace(text, k + 1)}})}

\* the indices of a "[" that \s*\{.*?\}\s*\] follows
ArrayStarts(text) ==
    {i \in 1..Len(text) :
        /\ Char(text, i) = "["
        /\ Only({Char(text, j) = "{" /\ ArrayEnds(text, j) # {} :
                    j \in {SkipReSpace(text, i + 1)}})}

\* the least element of a non-empty set of numbers
Min(S) == Only({CHOOSE x \in T : \A y \in T : x <= y : T \in {S}})

\* re.search(r'\[\s*\{.*?\}\s*\]', text, re.DOTALL): the leftmost match, its
\* lazy middle as short as possible
ReArrayOfObjects(text) ==
    Only({IF ArrayStarts(t) = {} THEN NoneStr
          ELSE Only({Some(Sub(t, i, SkipReSpace(t, Min(ArrayEnds(t, SkipReSpace(t, i + 1))) + 1))) :
                        i \in {Min(ArrayStarts(t))}}) :
          t \in {text}})

\* re.search(open + r'.*?' + close, text, re.DOTALL) for one-character
\* open and close: r'\[.*?\]' and r'\{.*?\}'
ReLazySpan(text, open, close) ==
    Only({Only({
             Only({IF i > Len(t) \/ k > Len(t) THEN NoneStr ELSE Some(Sub(t, i, k)) :
                      k \in {FindFirst(t, i + 1, {close})}}) :
             i \in {FindFirst(t, 1, {open})}}) :
          t \in {text}})

\* the match taken without the test json.loads
ParsableUntested(m) == m

\* the match when it parses as JSON, None otherwise
Parsable(m) == Only({IF v.found /\ json_loads(v.s).ok THEN v ELSE NoneStr : v \in {m}})

\* utils.py 228-243: the first pattern, in order, that matches and parses
RegexFallback(text) ==
    Only({Only({
             IF m1.found THEN m1
             ELSE Only({
                IF m2.found THEN m2
                ELSE Parsable(ReLazySpan(t, "{", "}")) :
                m2 \in {Parsable(ReLazySpan(t, "[", "]"))}}) :
             m1 \in {Parsable(ReArrayOfObjects(t))}}) :
          t \in {text}})

extract_json_from_response(response_text) ==
    Only({Only({
             IF arr.found THEN arr
             ELSE Only({IF obj.found THEN obj ELSE RegexFallback(text) :
                           obj \in {ScanBalanced(text, 1, "{", "}", 0, 0)}}) :
             arr \in {ScanBalanced(text, 1, "[", "]", 0, 0)}}) :
          text \in {strip(response_text)}})

(***************************************************************************)
(* str(value) of Python for a parsed JSON value (agent.py 246-250 search   *)
(* the lower-cased str() of the parsed list)                               *)
(***************************************************************************)
\* the repr of one character inside a literal quoted by quote
EscapeChar(c, quote) ==
    IF c = "\\" THEN "\\\\"
    ELSE IF c = "\n" THEN "\\n"
    ELSE IF c = "\t" THEN "\\t"
    ELSE IF c = "\r" THEN "\\r"
    ELSE IF c = quote THEN "\\" \o quote
    ELSE c

RECURSIVE EscapeFrom(_, _, _)
EscapeFrom(s, i, quote) ==
    Only({IF b > Len(a) THEN ""
          ELSE EscapeChar(SubSeq(a, b, b), q) \o EscapeFrom(a, b + 1, q) :
          a \in {s}, b \in {i}, q \in {quote}})

\* repr of a str: single quotes, double quotes when it holds a ' and no "
StrRepr(s) ==
    Only({IF Contains(a, "'") /\ ~Contains(a, "\"")
          THEN "\"" \o EscapeFrom(a, 1, "\"") \o "\""
          ELSE "'" \o EscapeFrom(a, 1, "'") \o "'" :
          a \in {s}})

RECURSIVE py_str(_), ReprItems(_, _), ReprPairs(_, _)
py_str(v) ==
    Only({IF a.t = "str" THEN StrRepr(a.s)
          ELSE IF a.t = "list" THEN "[" \o ReprItems(a.items, 1) \o "]"
          ELSE IF a.t = "dict" THEN "{" \o ReprPairs(a, 1) \o "}"
          ELSE a.s :
          a \in {v}})

ReprItems(items, n) ==
    Only({IF k > Len(a) THEN ""
          ELSE py_str(a[k]) \o (IF k < Len(a) THEN ", " ELSE "") \o ReprItems(a, k + 1) :
          a \in {items}, k \in {n}})

ReprPairs(d, n) ==
    Only({IF k > Len(a.keys) THEN ""
          ELSE StrRepr(a.keys[k]) \o ": " \o py_str(a.items[k])
                  \o (IF k < Len(a.keys) THEN ", " ELSE "") \o ReprPairs(a, k + 1) :
          a \in {d}, k \in {n}})

(***************************************************************************)
(* The four re.sub calls of agent.py 267-272, each replacing every         *)
(* non-overlapping match, leftmost first, by the empty string.  A match    *)
(* can only start at the pattern's first character, so the text between    *)
(* two such characters is copied in one piece.                             *)
(***************************************************************************)
\* the text from index i up to, not including, index next
CopyTo(text, i, next) == Sub(text, i, next - 1)

\* re.sub(r'\{[^{}]*"action"[^{}]*\}', '', text) from index i on
RECURSIVE SubActionObject(_, _)
SubActionObject(text, i) ==
    Only({IF b > Len(t) THEN ""
          ELSE Only({IF /\ Char(t, b) = "{"
                        /\ Char(t, j) = "}"
                        /\ Contains(Sub(t, b + 1, j - 1), "\"action\"")
                     THEN SubActionObject(t, j + 1)
                     ELSE Only({CopyTo(t, b, k) \o SubActionObject(t, k) :
                                   k \in {FindFirst(t, b + 1, {"{"})}}) :
                     j \in {FindFirst(t, b + 1, {"{", "}"})}}) :
          t \in {text}, b \in {i}})

\* re.sub(r'\{"action"[^}]*', '', text) from index i on
RECURSIVE SubActionFragment(_, _)
SubActionFragment(text, i) ==
    Only({IF b > Len(t) THEN ""
          ELSE IF Sub(t, b, b + 8) = "{\"action\""
               THEN SubActionFragment(t, FindFirst(t, b + 9, {"}"}))
          ELSE Only({CopyTo(t, b, k) \o SubActionFragment(t, k) :
                        k \in {FindFirst(t, b + 1, {"{"})}}) :
          t \in {text}, b \in {i}})

\* the index of the ":" of a match of  ,"[^"]+"\s*:  that starts at i, 0 if none
KeyColon(text, i) ==
    Only({IF Char(t, b) # "," \/ Char(t, b + 1) # "\"" THEN 0
          ELSE Only({IF q >= b + 3 /\ q <= Len(t)
                     THEN Only({IF Char(t, c) = ":" THEN c ELSE 0 :
                                   c \in {SkipReSpace(t, q + 1)}})
                     ELSE 0 :
                     q \in {FindFirst(t, b + 2, {"\""})}}) :
          t \in {text}, b \in {i}})

\* the index of the closing quote of  \s*"[^"]*"  that starts at i, 0 if none
QuotedEnd(text, i) ==
    Only({Only({IF Char(t, v) # "\"" THEN 0
                ELSE Only({IF q <= Len(t) THEN q ELSE 0 :
                              q \in {FindFirst(t, v + 1, {"\""})}}) :
                v \in {SkipReSpace(t, b)}}) :
          t \in {text}, b \in {i}})

\* re.sub(r',"[^"]+"\s*:\s*"[^"]*"[^}]*', '', text) from index i on
RECURSIVE SubStringPair(_, _)
SubStringPair(text, i) ==
    Only({IF b > Len(t) THEN ""
          ELSE Only({
             IF q2 # 0
             THEN SubStringPair(t, FindFirst(t, q2 + 1, {"}"}))
             ELSE Only({CopyTo(t, b, k) \o SubStringPair(t, k) :
                           k \in {FindFirst(t, b + 1, {","})}}) :
             q2 \in {Only({IF c = 0 THEN 0 ELSE QuotedEnd(t, c + 1) :
                              c \in {KeyColon(t, b)}})}}) :
          t \in {text}, b \in {i}})

\* re.sub(r',"[^"]+"\s*:\s*[^,}]*', '', text) from index i on
RECURSIVE SubAnyPair(_, _)
SubAnyPair(text, i) ==
    Only({IF b > Len(t) THEN ""
          ELSE Only({
             IF c # 0
             THEN SubAnyPair(t, FindFirst(t, c + 1, {",", "}"}))
             ELSE Only({CopyTo(t, b, k) \o SubAnyPair(t, k) :
                           k \in {FindFirst(t, b + 1, {","})}}) :
             c \in {KeyColon(t, b)}}) :
          t \in {text}, b \in {i}})

\* the code fence marker: the backquote is written "~"
Fence == "~~~"

\* agent.py 276-284: the loop that removes leading fences, commas and space
RECURSIVE StripPrefixes(_)
StripPrefixes(r) ==
    Only({IF StartsWith(a, Fence) THEN StripPrefixes(strip(Sub(a, 4, Len(a))))
          ELSE IF StartsWith(a, "\n") THEN StripPrefixes(strip(Sub(a, 2, Len(a))))
          ELSE IF StartsWith(a, ",") THEN StripPrefixes(strip(Sub(a, 2, Len(a))))
          ELSE IF StartsWith(a, " ") \/ StartsWith(a, "\t") THEN StripPrefixes(lstrip(a))
          ELSE a :
          a \in {r}})

\* agent.py 286-294: the loop that removes trailing fences, braces and space
RECURSIVE StripSuffixes(_)
StripSuffixes(r) ==
    Only({IF EndsWith(a, Fence) THEN StripSuffixes(strip(Sub(a, 1, Len(a) - 3)))
          ELSE IF EndsWith(a, "\n") THEN StripSuffixes(strip(Sub(a, 1, Len(a) - 1)))
          ELSE IF EndsWith(a, "}") THEN StripSuffixes(strip(Sub(a, 1, Len(a) - 1)))
          ELSE IF EndsWith(a, " ") \/ EndsWith(a, "\t") THEN StripSuffixes(rstrip(a))
          ELSE a :
          a \in {r}})

FallbackReply == "Nas^il yard^imc^i olabilirim?"

\* the residue returned as it is left
ReplyTextAsLeft(response_text) ==
    StripSuffixes(StripPrefixes(strip(
       SubAnyPair(SubStringPair(SubActionFragment(
          SubActionObject(response_text, 1), 1), 1), 1))))

\* agent.py 261-298: the reply text left after the JSON is removed
ReplyText(response_text) ==
    Only({IF strip(r5) = "" THEN FallbackReply ELSE r5 :
          r5 \in {StripSuffixes(StripPrefixes(strip(
                     SubAnyPair(SubStringPair(SubActionFragment(
                        SubActionObject(response_text, 1), 1), 1), 1))))}})

(***************************************************************************)
(* agent.parse_action_from_response                                        *)
(***************************************************************************)
JStr(s) == JScalar("str", s)

JFalse == JScalar("bool", "False")

AskDict(notes) ==
    JVal("dict", "", <<"action", "intent_clear", "notes">>,
         <<JStr("ASK"), JFalse, JStr(notes)>>)

\* any(w in text for w in words): some word starts at some index of the text
AnyIn(words, text) ==
    \E ws \in {words}, t \in {text} :
        \E lengths \in {{Len(w) : w \in ws}} :
            \E i \in 1..Len(t) :
                \E n \in lengths : i + n - 1 <= Len(t) /\ SubSeq(t, i, i + n - 1) \in ws

\* the drink terms looked for before the diet terms
ClassifyArrayDrinkFirst(parsed_json) ==
    Only({IF AnyIn({"drink", "beverage"}, text) THEN AskDict("clarify_drink")
          ELSE IF AnyIn({"allergy", "diet", "preference"}, text)
          THEN AskDict("clarify_diet_allergy")
          ELSE IF AnyIn({"side", "accompaniment"}, text) THEN AskDict("clarify_side")
          ELSE AskDict("general_clarification") :
          text \in {lower(py_str(parsed_json))}})

\* agent.py 246-253: the note for a list that holds no dict
ClassifyArray(parsed_json) ==
    Only({IF AnyIn({"allergy", "diet", "preference"}, text)
          THEN AskDict("clarify_diet_allergy")
          ELSE IF AnyIn({"drink", "beverage"}, text) THEN AskDict("clarify_drink")
          ELSE IF AnyIn({"side", "accompaniment"}, text) THEN AskDict("clarify_side")
          ELSE AskDict("general_clarification") :
          text \in {lower(py_str(parsed_json))}})

\* agent.py 234-257: the decision taken from the parsed JSON value
FromParsed(parsed_json) ==
    Only({IF v.t = "list" /\ Len(v.items) > 0
          THEN Only({IF dicts # {} THEN v.items[Min(dicts)] ELSE ClassifyArray(v) :
                        dicts \in {{n \in 1..Len(v.items) : v.items[n].t = "dict"}}})
          ELSE IF v.t = "dict" THEN v
          ELSE AskDict("fallback") :
          v \in {parsed_json}})

\* agent.py 223-259: the decision taken from the extracted JSON
ActionDict(response_text) ==
    Only({IF ~action_json.found THEN AskDict("fallback")
          ELSE Only({IF ~parsed.ok THEN AskDict("fallback") ELSE FromParsed(parsed.val) :
                        parsed \in {json_loads(action_json.s)}}) :
          action_json \in {extract_json_from_response(response_text)}})

parse_action_from_response(response_text) ==
    Only({[action_dict |-> ActionDict(t), reply_text |-> ReplyText(t)] :
          t \in {response_text}})

(***************************************************************************)
(* The candidate ranker (parlaplate/match.py, utils.price_bucket)          *)
(*                                                                         *)
(* A MenuItem is a record [name, price, ingredients, keywords, allergens,  *)
(* category]; an Optional[str] field that is None is the empty string.     *)
(* Constraints are [diet, avoid_allergens, price_preference].  Similarity  *)
(* scores are integers in tenths (10 is the cosine 1.0), adjusted and      *)
(* final scores in hundredths, so that the factor 0.7 is exact.            *)
(***************************************************************************)
MenuItem(name, price, ingredients, keywords, allergens) ==
    [name |-> name, price |-> price, ingredients |-> ingredients,
     keywords |-> keywords, allergens |-> allergens, category |-> ""]

Constraints(diet, avoid_allergens, price_preference) ==
    [diet |-> diet, avoid_allergens |-> avoid_allergens,
     price_preference |-> price_preference]

SeqSet(q) == Only({{a[n] : n \in 1..Len(a)} : a \in {q}})

LowerAll(q) == Only({Tuple([n \in 1..Len(a) |-> lower(a[n])]) : a \in {q}})

Digits == "0123456789"

\* int() of a run of digits
RECURSIVE DigitsValue(_, _)
DigitsValue(s, acc) ==
    Only({IF Len(a) = 0 THEN r
          ELSE DigitsValue(Sub(a, 2, Len(a)),
                           r * 10 + (CHOOSE d \in 0..9 :
                                        SubSeq(Digits, d + 1, d + 1) = SubSeq(a, 1, 1))) :
          a \in {s}, r \in {acc}})

PriceLowBelow == 20

PriceMediumBelow == 50

\* the medium bucket taken to include its upper threshold
price_bucketInclusive(price_str) ==
    Only({Only({
             IF p = "" \/ d > Len(p) THEN ""
             ELSE Only({IF price_value < PriceLowBelow THEN "low"
                        ELSE IF price_value <= PriceMediumBelow THEN "medium"
                        ELSE "high" :
                        price_value \in {DigitsValue(Sub(p, d, SkipDigits(p, d) - 1), 0)}}) :
             d \in {FindFirst(p, 1, {"0", "1", "2", "3", "4", "5", "6", "7", "8", "9"})}}) :
          p \in {price_str}})

\* utils.price_bucket: the bucket of the first numeric token, "" for None.
\* The fraction of the token never changes the side of an integer threshold.
price_bucket(price_str) ==
    Only({Only({
             IF p = "" \/ d > Len(p) THEN ""
             ELSE Only({IF price_value < PriceLowBelow THEN "low"
                        ELSE IF price_value < PriceMediumBelow THEN "medium"
                        ELSE "high" :
                        price_value \in {DigitsValue(Sub(p, d, SkipDigits(p, d) - 1), 0)}}) :
             d \in {FindFirst(p, 1, {"0", "1", "2", "3", "4", "5", "6", "7", "8", "9"})}}) :
          p \in {price_str}})

\* match.py 182 and 188
MeatTerms == {"chicken", "beef", "lamb", "fish", "seafood", "turkey", "pork"}

NonVeganTerms == {"chicken", "beef", "lamb", "fish", "seafood", "cheese", "milk", "cream", "butter"}

\* the allergens compared as they are written
AllergenExcludedCaseSensitive(item, avoid_allergens) ==
    \E a \in SeqSet(avoid_allergens) : a \in SeqSet(item.allergens)

\* match.py 166-170: the item carries an allergen of the avoid-list
AllergenExcluded(item, avoid_allergens) ==
    /\ Len(avoid_allergens) > 0
    /\ \E item_allergens \in {SeqSet(LowerAll(item.allergens))} :
          \E a \in SeqSet(avoid_allergens) : lower(a) \in item_allergens

\* match.py 174-176
ItemText(item) ==
    Join(LowerAll(item.keywords) \o LowerAll(item.ingredients) \o <<lower(item.name)>>, " ")

\* only the first requested diet is looked at
DietExcludedFirstTagOnly(item, diet_requirements) ==
    /\ Len(diet_requirements) > 0
    /\ \E item_text \in {ItemText(item)}, diet \in {lower(diet_requirements[1])} :
          \/ diet = "vegetarian" /\ AnyIn(MeatTerms, item_text)
          \/ diet = "vegan" /\ AnyIn(NonVeganTerms, item_text)

\* match.py 173-191: some requested diet's vocabulary occurs in the item's text
DietExcluded(item, diet_requirements) ==
    /\ Len(diet_requirements) > 0
    /\ \E item_text \in {ItemText(item)} :
          \E n \in 1..Len(diet_requirements) :
             \E diet \in {lower(diet_requirements[n])} :
                \/ diet = "vegetarian" /\ AnyIn(MeatTerms, item_text)
                \/ diet = "vegan" /\ AnyIn(NonVeganTerms, item_text)

\* match.apply_constraints_filter: the keep-mask
apply_constraints_filter(items, constraints) ==
    Only({Tuple([i \in 1..Len(a) |->
                   /\ ~AllergenExcluded(a[i], c.avoid_allergens)
                   /\ ~DietExcluded(a[i], c.diet)]) :
          a \in {items}, c \in {constraints}})

\* match.py 225-236: the query text
QueryText(query_keywords, constraints) ==
    Only({Join(query_keywords \o c.diet
                  \o (IF c.price_preference # ""
                      THEN <<"price-" \o c.price_preference>> ELSE <<>>), " ") :
          c \in {constraints}})

SentinelScore == -100

PenaltyTenths == 7

\* match.py 253-259: the final scores, in hundredths
FinalScores(items, sims, constraints) ==
    Only({Tuple([i \in 1..Len(a) |->
                   IF ~mask[i] THEN SentinelScore
                   ELSE IF /\ c.price_preference = "low"
                           /\ a[i].price # ""
                           /\ price_bucket(a[i].price) = "high"
                        THEN s[i] * PenaltyTenths
                        ELSE s[i] * 10]) :
          a \in {items}, s \in {sims}, c \in {constraints},
          mask \in {apply_constraints_filter(items, constraints)}})

\* np.argsort(final_scores): a permutation that lists the scores in
\* non-decreasing order; the order among equal scores is the sort's choice
IsArgsort(perm, scores) ==
    /\ Len(perm) = Len(scores)
    /\ SeqSet(perm) = 1..Len(scores)
    /\ \A a, b \in 1..Len(perm) : a < b => scores[perm[a]] <= scores[perm[b]]

\* the argsort taken as it is, in ascending order
Ascending(q) == q

\* [::-1]
Reverse(q) == Tuple([n \in 1..Len(q) |-> q[Len(q) + 1 - n]])

\* q[:k]
Take(q, k) == Tuple([n \in 1..(IF k < Len(q) THEN k ELSE Len(q)) |-> q[n]])

\* q[-k:]
LastN(q, k) == Tuple([n \in 1..(IF k < Len(q) THEN k ELSE Len(q)) |->
                         q[n + (IF k < Len(q) THEN Len(q) - k ELSE 0)]])

\* match.py 265: the indices whose final score is not negative, in order
SelectValid(idx, scores) ==
    Only({SelectSeq(a, LAMBDA i : s[i] >= 0) : a \in {idx}, s \in {scores}})

\* What the embedding service and the sort contribute to one ranking pass:
\* embed_ok (the embedding calls and the cache succeed), sims (the
\* similarity per item: the cosine, or np.random.rand for an empty query)
\* and order (the argsort permutation).
RankEnv(embed_ok, sims, order) == [embed_ok |-> embed_ok, sims |-> sims, order |-> order]

\* match.rank_candidates: [raised, items]
rank_candidates(items, query_keywords, constraints, top_k, env) ==
    IF Len(items) = 0 THEN [raised |-> FALSE, items |-> <<>>]
    ELSE IF ~env.embed_ok THEN [raised |-> TRUE, items |-> <<>>]
    ELSE Only({[raised |-> FALSE,
                items |-> Tuple([n \in 1..Len(valid_indices) |->
                                    items[valid_indices[n]]])] :
               valid_indices \in
                  {SelectValid(Take(Reverse(env.order), top_k),
                               FinalScores(items, env.sims, constraints))}})

(***************************************************************************)
(* The embedding cache (parlaplate/match.py)                               *)
(*                                                                         *)
(* A MenuJSON is [restaurant |-> [name], items]; a restaurant name of ""   *)
(* stands for None.  An embedding matrix is [model, rows]: one row per     *)
(* embedded text, under the embedding model that fixes its dimension.  The *)
(* cache storage is a function from the paths that exist to the matrices   *)
(* stored there.                                                           *)
(***************************************************************************)
MenuJSON(restaurant_name, items) == [restaurant |-> [name |-> restaurant_name], items |-> items]

\* match.build_item_text
build_item_text(item) ==
    lower(Join(<<item.name>> \o item.ingredients \o item.keywords
                  \o (IF item.category # "" THEN <<item.category>> ELSE <<>>), " "))

\* json.dumps of a string without a quote, a backslash, a control character
\* or a character outside ASCII
DumpsStr(s) == "\"" \o s \o "\""

\* json.dumps of an Optional[str]
DumpsOptional(s) == IF s = "" THEN "null" ELSE DumpsStr(s)

\* json.dumps of a List[str]
DumpsList(q) == "[" \o Join(Tuple([n \in 1..Len(q) |-> DumpsStr(q[n])]), ", ") \o "]"

\* the item serialized without its name
ItemDumpWithoutName(item) ==
    "{\"allergens\": " \o DumpsList(item.allergens)
       \o ", \"category\": " \o DumpsOptional(item.category)
       \o ", \"ingredients\": " \o DumpsList(item.ingredients)
       \o ", \"keywords\": " \o DumpsList(item.keywords)
       \o ", \"price\": " \o DumpsOptional(item.price)
       \o ", \"spice_level\": null}"

\* json.dumps(item.model_dump(), sort_keys=True): the fields of schemas.MenuItem
\* in the order of their keys
ItemDump(item) ==
    "{\"allergens\": " \o DumpsList(item.allergens)
       \o ", \"category\": " \o DumpsOptional(item.category)
       \o ", \"ingredients\": " \o DumpsList(item.ingredients)
       \o ", \"keywords\": " \o DumpsList(item.keywords)
       \o ", \"name\": " \o DumpsStr(item.name)
       \o ", \"price\": " \o DumpsOptional(item.price)
       \o ", \"spice_level\": null}"

\* match.py 73-76: the items serialized in the order of the list
content_str(items) ==
    "[" \o Join(Tuple([n \in 1..Len(items) |-> ItemDump(items[n])]), ", ") \o "]"

\* hashlib.sha256(...).hexdigest()[:16], taken as collision-free: a digest
\* that is equal for equal content only
content_hash(text) == [sha256 |-> text]

IsAlnum(c) ==
    \/ IsDigit(c)
    \/ \E i \in 1..Len(LowerLetters) :
          c = SubSeq(LowerLetters, i, i) \/ c = SubSeq(UpperLetters, i, i)

\* match.py 80: the characters c with c.isalnum() or c in "-_"
RECURSIVE SafeChars(_)
SafeChars(s) ==
    Only({IF Len(a) = 0 THEN ""
          ELSE (IF IsAlnum(Char(a, 1)) \/ Char(a, 1) \in {"-", "_"} THEN Char(a, 1) ELSE "")
                  \o SafeChars(Sub(a, 2, Len(a))) :
          a \in {s}})

\* match.py 79-80
safe_name(name) == lower(SafeChars(IF name = "" THEN "unknown" ELSE name))

\* match.get_embedding_cache_path: os.path.join(base_dir,
\* f"{safe_name}_{content_hash}.emb.npy"), kept as its three parts
get_embedding_cache_path(menu_json) ==
    [base_dir |-> "opt/menu_content",
     safe_name |-> safe_name(menu_json.restaurant.name),
     content_hash |-> content_hash(content_str(menu_json.items))]

\* ---- the menus that are drawn ----
LentilSoup == MenuItem("Lentil Soup", "15.99 TL", <<"lentils">>, <<"soup">>, <<>>)

PeanutNoodles == MenuItem("Peanut Noodles", "60 TL", <<"noodles">>, <<"spicy">>, <<"Peanuts">>)

PorkRibs == MenuItem("Pork Ribs", "", <<"Pork">>, <<"bbq">>, <<>>)

CheesePide == MenuItem("Cheese Pide", "25 TL", <<"cheese">>, <<"baked">>, <<"Dairy">>)

LentilStew == [LentilSoup EXCEPT !.name = "Lentil Stew"]

\* the menu files: a menu, the same menu in another file, its items in
\* another order, one item under another name, the restaurant name written
\* another way, and no restaurant name
MenuFiles ==
    {[file |-> "menus/roma.json", menu |-> MenuJSON("Cafe Roma", <<LentilSoup, PorkRibs>>)],
     [file |-> "menus/copy.json", menu |-> MenuJSON("Cafe Roma", <<LentilSoup, PorkRibs>>)],
     [file |-> "menus/sorted.json", menu |-> MenuJSON("Cafe Roma", <<PorkRibs, LentilSoup>>)],
     [file |-> "menus/stew.json", menu |-> MenuJSON("Cafe Roma", <<LentilStew, PorkRibs>>)],
     [file |-> "menus/upper.json", menu |-> MenuJSON("CAFE ROMA!", <<LentilSoup, PorkRibs>>)],
     [file |-> "menus/none.json", menu |-> MenuJSON("", <<LentilSoup>>)]}

\* get_embedding_cache_path(menu_json) and the texts of the items of
\* menu_json, for each menu that is drawn
CachePathOf ==
    Table([menu_json \in {mf.menu : mf \in MenuFiles} |->
              get_embedding_cache_path(menu_json)])

ItemTextsOf ==
    Table([menu_json \in {mf.menu : mf \in MenuFiles} |->
              Tuple([n \in 1..Len(menu_json.items) |-> build_item_text(menu_json.items[n])])])

\* match.embed_texts: the matrix of the texts under the model
embed_texts(model, texts) == [model |-> model, rows |-> texts]

\* What the file system and the embedding service do in one call: load_ok
\* (np.load succeeds), save_ok (os.makedirs and np.save succeed), embed_ok
\* (the embedding call succeeds)
CacheEnv(load_ok, save_ok, embed_ok) ==
    [load_ok |-> load_ok, save_ok |-> save_ok, embed_ok |-> embed_ok]

\* never reading the cache
TriesLoadNever(store, cache_path, force_recompute) == FALSE

\* match.py 106: not force_recompute and os.path.exists(cache_path)
TriesLoad(store, cache_path, force_recompute) ==
    ~force_recompute /\ cache_path \in DOMAIN store

\* a failure of np.load left uncaught
load_or_compute_embeddingsLoadRaises(store, model_embed, menu_json, force_recompute, env) ==
    Only({IF TriesLoad(store, cache_path, force_recompute) /\ env.load_ok
          THEN [raised |-> FALSE, embeddings |-> store[cache_path], store |-> store,
                embed_calls |-> 0, hit |-> TRUE]
          ELSE IF TriesLoad(store, cache_path, force_recompute)
          THEN [raised |-> TRUE, embeddings |-> embed_texts("", <<>>), store |-> store,
                embed_calls |-> 0, hit |-> FALSE]
          ELSE IF ~env.embed_ok
          THEN [raised |-> TRUE, embeddings |-> embed_texts("", <<>>), store |-> store,
                embed_calls |-> 1, hit |-> FALSE]
          ELSE Only({[raised |-> FALSE, embeddings |-> embeddings,
                      store |-> IF env.save_ok THEN (cache_path :> embeddings) @@ store
                                ELSE store,
                      embed_calls |-> 1, hit |-> FALSE] :
                     embeddings \in
                        {embed_texts(model_embed, ItemTextsOf[menu_json])}}) :
          cache_path \in {CachePathOf[menu_json]}})

\* match.load_or_compute_embeddings: [raised, embeddings, store, embed_calls, hit]
load_or_compute_embeddings(store, model_embed, menu_json, force_recompute, env) ==
    Only({IF TriesLoad(store, cache_path, force_recompute) /\ env.load_ok
          THEN [raised |-> FALSE, embeddings |-> store[cache_path], store |-> store,
                embed_calls |-> 0, hit |-> TRUE]
          ELSE IF ~env.embed_ok
          THEN [raised |-> TRUE, embeddings |-> embed_texts("", <<>>), store |-> store,
                embed_calls |-> 1, hit |-> FALSE]
          ELSE Only({[raised |-> FALSE, embeddings |-> embeddings,
                      store |-> IF env.save_ok THEN (cache_path :> embeddings) @@ store
                                ELSE store,
                      embed_calls |-> 1, hit |-> FALSE] :
                     embeddings \in
                        {embed_texts(model_embed, ItemTextsOf[menu_json])}}) :
          cache_path \in {CachePathOf[menu_json]}})

(***************************************************************************)
(* The unified agent (parlaplate/agent.py)                                 *)
(*                                                                         *)
(* A ChatTurn is [role, content].  A completion is what one call of the    *)
(* chat service does: [ok, text], ok = FALSE when the call raises (or      *)
(* returns no content, which raises at .strip()).                          *)
(***************************************************************************)
ChatTurn(role, content) == [role |-> role, content |-> content]

Completion(ok, text) == [ok |-> ok, text |-> text]

\* agent.py 140-147
intent_keywords ==
    {"ac^ikt^im", "a^c", "yemek", "yiyecek", "lezzet", "tat", "men^u",
     "et", "tavuk", "bal^ik", "sebze", "salata", "^corba", "tatl^i",
     "pizza", "burger", "pasta", "d^oner", "kebab", "pilav",
     "kahvalt^i", "^o^gle", "ak^sam", "at^i^st^irmal^ik",
     "vegetarian", "vegan", "gluten", "spicy", "mild", "sweet",
     "salty", "crispy", "grilled", "fried", "soup", "salad"}

\* agent.py 150-153
delegation_phrases ==
    {"sen se^c", "sana kalm^i^s", "^oner", "tavsiye", "istedi^gin",
     "up to you", "you choose", "recommend", "suggest"}

IntentWindow == 3

\* agent.py 156-158: the text that is searched
AllText(history, user_message) ==
    Join(<<lower(user_message)>>
            \o Only({LowerAll([n \in 1..Len(recent) |-> recent[n].content]) :
                      recent \in {LastN(history, IntentWindow)}}), " ")

\* agent.py 150-166: the words of both lists, their lengths and their first
\* two characters (no word is shorter)
IntentWords == delegation_phrases \cup intent_keywords

IntentLengths == {Len(w) : w \in IntentWords}

IntentHeads == {SubSeq(w, 1, 2) : w \in IntentWords}

\* agent.check_food_intent: some word of either list occurs in the text
check_food_intent(history, user_message) ==
    \E all_text \in {AllText(history, user_message)} :
        \E i \in 1..(Len(all_text) - 1) :
            /\ SubSeq(all_text, i, i + 1) \in IntentHeads
            /\ \E n \in IntentLengths :
                  /\ i + n - 1 <= Len(all_text)
                  /\ SubSeq(all_text, i, i + n - 1) \in IntentWords

PromptCandidates == 3

PromptKeywords == 5

PromptIngredients == 3

\* agent.py 188-199: the candidate data put into the system prompt
CandidateData(candidates) ==
    Only({Tuple([n \in 1..Len(head) |->
                   [name |-> head[n].name,
                    price |-> head[n].price,
                    keywords |-> Take(head[n].keywords, PromptKeywords),
                    allergens |-> head[n].allergens,
                    ingredients |-> Take(head[n].ingredients, PromptIngredients)]]) :
          head \in {Take(candidates, PromptCandidates)}})

\* agent.build_system_prompt: the prompt is the fixed template filled with
\* the restaurant, the persona and the candidates; only the candidates vary
build_system_prompt(candidates) ==
    [template |-> "UNIFIED_AGENT_SYSTEM", candidates_json |-> CandidateData(candidates)]

ContextWindow == 5

\* agent.py 349-353
ConversationContext(history, user_message) ==
    Only({Join([n \in 1..Len(turns) |-> turns[n].role \o ": " \o turns[n].content]
                  \o <<"user: " \o user_message>>, "\n") :
          turns \in {LastN(history, ContextWindow)}})

\* One call of client.chat.completions.create, as recorded in the call log
Call(kind, system, user) == [kind |-> kind, system |-> system, user |-> user]

\* the value of key in a parsed dict, dflt when absent: dict.get(key, dflt)
DictGet(d, key, dflt) ==
    Only({IF found = {} THEN dflt ELSE d.items[Min(found)] :
          found \in {{n \in 1..Len(d.keys) : d.keys[n] = key}}})

\* agent.py 80-94: the keyword list taken from the completion's text
KeywordsOf(text) ==
    Only({IF ~json_text.found THEN <<>>
          ELSE Only({IF ~keywords.ok \/ keywords.val.t # "list" THEN <<>>
                     ELSE Only({Tuple([n \in 1..Len(strs) |-> strs[n].s]) :
                                   strs \in {SelectSeq(keywords.val.items,
                                                       LAMBDA v : v.t = "str")}}) :
                     keywords \in {json_loads(json_text.s)}}) :
          json_text \in {extract_json_from_response(strip(text))}})

\* agent.extract_user_keywords: [] when the call or the parse fails
extract_user_keywords(kw) == IF ~kw.ok THEN <<>> ELSE KeywordsOf(kw.text)

TopK == 8

\* the unranked head of the menu instead of nothing when the ranker raises
lookup_candidatesUnranked(menu_items, keywords, constraints, env) ==
    Only({IF r.raised THEN Take(menu_items, TopK) ELSE r.items :
          r \in {rank_candidates(menu_items, keywords, constraints, TopK, env)}})

\* agent.lookup_candidates: an exception of the ranker gives no candidates
lookup_candidates(menu_items, keywords, constraints, env) ==
    Only({IF r.raised THEN <<>> ELSE r.items :
          r \in {rank_candidates(menu_items, keywords, constraints, TopK, env)}})

NoOrder == [order |-> <<>>, persona |-> "", restaurant |-> "", menu_json |-> ""]

\* only names that are on the menu become order items
finalize_orderFromMenu(selected_items, agent) ==
    [order |-> SelectSeq([n \in 1..Len(selected_items) |->
                             [name |-> strip(selected_items[n]), notes |-> ""]],
                         LAMBDA it : \E n \in 1..Len(agent.menu) :
                                        agent.menu[n].name = it.name),
     persona |-> agent.persona_id,
     restaurant |-> agent.display_name,
     menu_json |-> "opt/menu_content/" \o agent.name \o ".json"]

\* agent.finalize_order (the confidence 0.8 and the timestamp are left out)
finalize_order(selected_items, agent) ==
    [order |-> Tuple([n \in 1..Len(selected_items) |->
                         [name |-> strip(selected_items[n]), notes |-> ""]]),
     persona |-> agent.persona_id,
     restaurant |-> IF agent.display_name # "" THEN agent.display_name
                    ELSE IF agent.name # "" THEN agent.name ELSE "Unknown",
     menu_json |-> IF agent.name # ""
                   THEN "opt/menu_content/" \o agent.name \o ".json"
                   ELSE "unknown.json"]

ConfirmationReply ==
    "^v Harika! Sipari^siniz haz^irlan^iyor. A^sa^g^idan sipari^s detaylar^in^iz^i indirebilirsiniz."

ApologyReply == "^Oz^ur dilerim, bir sorun olu^stu. L^utfen tekrar deneyin."

MenuActions == {"LOOKUP", "RECOMMEND", "REFINE"}

IsAction(action, names) == action.t = "str" /\ action.s \in names

\* the model's decision alone opens the menu
MenuGateModelOnly(action, intent_clear) == IsAction(action, MenuActions)

\* agent.py 381: the condition under which the menu is consulted
MenuGate(action, intent_clear) == IsAction(action, MenuActions) /\ intent_clear

\* constraints taken from what the user said
NamedConstraints == Constraints(<<>>, <<"peanuts">>, "low")

\* agent.py 384-388
EmptyConstraints == Constraints(<<>>, <<>>, "")

\* What the outside world contributes to one turn: the decision completion
\* c1, the keyword completion kw, the ranking pass rank, the grounded
\* completion c2.
TurnEnv(c1, kw, rank, c2) == [c1 |-> c1, kw |-> kw, rank |-> rank, c2 |-> c2]

\* What a turn did, kept beside the tuple respond returns: the local intent
\* signal, the completion calls issued (in order), the action of the first
\* completion's decision ("" when that call failed), whether the ranking
\* pass raised and whether a completion call failed.
Did(intent_clear, calls, decision, rank_raised, call_failed) ==
    [intent_clear |-> intent_clear, calls |-> calls, decision |-> decision,
     rank_raised |-> rank_raised, call_failed |-> call_failed]

\* The tuple respond returns (has_order = FALSE is maybe_order = None), with
\* raised = TRUE when an exception leaves instead, and what the turn did.
Result(reply_text, action, candidates, has_order, maybe_order, raised, did) ==
    [reply_text |-> reply_text, action |-> action, candidates |-> candidates,
     has_order |-> has_order, maybe_order |-> maybe_order, raised |-> raised,
     did |-> did]

KeywordPrompt == [template |-> "KEYWORD_EXTRACTION_SYSTEM", candidates_json |-> <<>>]

GroundingRequest == "\n\nProvide specific recommendations from the menu candidates."

\* Texts the chat service returns for the decision call: the format the
\* prompt prescribes (prompts.py 81-86), decision objects without the
\* need_slots array, bare objects and plain prose.
DecisionTexts ==
    {"{\"action\":\"RECOMMEND\",\"intent_clear\":true,\"need_slots\":[],\"notes\":\"showing options\"} Sure!",
     "{\"action\":\"FINALIZE\",\"intent_clear\":true,\"need_slots\":[\"diet\"],\"notes\":\"order complete\"} Done",
     "{\"action\":\"RECOMMEND\",\"intent_clear\":true} I recommend the soup.",
     "{\"action\":\"FINALIZE\",\"intent_clear\":true} Done",
     "{\"action\":\"ASK\",\"intent_clear\":false} Any allergies?",
     "{\"action\":\"LOOKUP\"}",
     "{\"action\":\"REFINE\",\"notes\":\"n\"}",
     "{\"action\":\"DANCE\",\"intent_clear\":true} Hi!",
     "Hi!"}

DecisionCompletions == {Completion(TRUE, t) : t \in DecisionTexts} \cup {Completion(FALSE, "")}

KeywordCompletions == {Completion(TRUE, "[\"soup\"]"), Completion(FALSE, "")}

GroundedTexts ==
    {"{\"action\":\"RECOMMEND\",\"intent_clear\":true} Try the Lentil Soup."}

GroundedCompletions == {Completion(TRUE, t) : t \in GroundedTexts} \cup {Completion(FALSE, "")}

CompletionTexts == DecisionTexts \cup GroundedTexts

NoCompletion == Completion(FALSE, "")

NoRankEnv == RankEnv(FALSE, <<>>, <<>>)

\* parse_action_from_response(response.choices[0].message.content.strip())
\* for each text a completion can carry
ParsedCompletion ==
    Table([t \in CompletionTexts |-> parse_action_from_response(strip(t))])

\* agent.py 381-405: the turn behind the menu gate
MenuTurn(agent, user_message, env, intent_clear, conversation_context, first, action) ==
    Only({LET call1 == Call("decision", build_system_prompt(<<>>), conversation_context)
              callK == Call("keywords", KeywordPrompt, user_message)
              call2 == Call("grounded", build_system_prompt(candidates),
                            conversation_context \o GroundingRequest)
          IN  IF Len(candidates) = 0
              THEN Result(first.reply_text, action, candidates, FALSE, NoOrder, FALSE,
                          Did(intent_clear, <<call1, callK>>, action, rank_raised, FALSE))
              ELSE IF ~env.c2.ok
              THEN Result("", action, candidates, FALSE, NoOrder, TRUE,
                          Did(intent_clear, <<call1, callK, call2>>, action, rank_raised, TRUE))
              ELSE Result(ParsedCompletion[env.c2.text].reply_text, action, candidates,
                          FALSE, NoOrder, FALSE,
                          Did(intent_clear, <<call1, callK, call2>>, action, rank_raised,
                              FALSE)) :
          candidates \in {lookup_candidates(agent.menu, extract_user_keywords(env.kw),
                                            EmptyConstraints, env.rank)},
          rank_raised \in {rank_candidates(agent.menu, extract_user_keywords(env.kw),
                                           EmptyConstraints, TopK, env.rank).raised}})

\* agent.py 345-416: the body of the try block
RespondBody(agent, history, user_message, env) ==
    Only({LET call1 == Call("decision", build_system_prompt(<<>>), conversation_context) IN
          IF ~env.c1.ok
          THEN Result("", JStr("ASK"), <<>>, FALSE, NoOrder, TRUE,
                      Did(intent_clear, <<call1>>, JStr(""), FALSE, TRUE))
          ELSE Only({
             IF MenuGate(action, intent_clear)
             THEN MenuTurn(agent, user_message, env, intent_clear, conversation_context,
                           first, action)
             ELSE IF IsAction(action, {"FINALIZE"})
             THEN Result(ConfirmationReply, action, <<>>, TRUE,
                         finalize_order(<<"Example Item">>, agent), FALSE,
                         Did(intent_clear, <<call1>>, action, FALSE, FALSE))
             ELSE Result(first.reply_text, action, <<>>, FALSE, NoOrder, FALSE,
                         Did(intent_clear, <<call1>>, action, FALSE, FALSE)) :
             first \in {ParsedCompletion[env.c1.text]},
             action \in {DictGet(ParsedCompletion[env.c1.text].action_dict,
                                 "action", JStr("ASK"))}}) :
          intent_clear \in {check_food_intent(history, user_message)},
          conversation_context \in {ConversationContext(history, user_message)}})

\* the except branch left out: the exception reaches the caller
respondUncaught(agent, history, user_message, env) ==
    RespondBody(agent, history, user_message, env)

\* agent.respond: the body inside try/except Exception (agent.py 344, 418-420)
respond(agent, history, user_message, env) ==
    Only({IF body.raised
          THEN Result(ApologyReply, JStr("ASK"), <<>>, FALSE, NoOrder, FALSE, body.did)
          ELSE body :
          body \in {RespondBody(agent, history, user_message, env)}})

(***************************************************************************)
(* The state: one chat session of app_streamlit/app.py (st.session_state), *)
(* a second session that receives the same user messages, one ranking     *)
(* pass of match.rank_candidates on drawn inputs, and one call of          *)
(* parse_action_from_response on a drawn completion text.                  *)
(***************************************************************************)
VARIABLES
    chat_history,     \* st.session_state.chat_history
    order_finalized,  \* st.session_state.order_finalized
    final_order,      \* st.session_state.final_order, [set |-> FALSE] is None
    intent_seen,      \* some turn of this conversation had the local intent signal
    last,             \* what the latest call of agent.respond returned and did
    chat_historyB,    \* the chat history of the second session
    lastB,            \* the latest respond of the second session
    rank_in,          \* the arguments of the ranking pass
    rank_out,         \* its result
    parse_in,         \* the text given to parse_action_from_response
    parse_out,        \* its result
    cache_store,      \* the embedding cache: the matrix stored at each path
    cache_last,       \* the latest call of load_or_compute_embeddings
    race_file,        \* the cache file that two concurrent calls share
    race_call         \* where each of the two concurrent calls stands

vars == <<chat_history, order_finalized, final_order, intent_seen, last,
          chat_historyB, lastB, rank_in, rank_out, parse_in, parse_out,
          cache_store, cache_last, race_file, race_call>>

sessionVars == <<chat_history, order_finalized, final_order, intent_seen, last>>

pairVars == <<chat_historyB, lastB>>

rankVars == <<rank_in, rank_out>>

parseVars == <<parse_in, parse_out>>

cacheVars == <<cache_store, cache_last>>

raceVars == <<race_file, race_call>>

\* ---- bounds of the model ----
MaxTurns == 2

MaxItems == 2

MaxK == 2

MaxElems == 2

MaxLongTurns == 3

ItemUniverse == {LentilSoup, PeanutNoodles, PorkRibs, CheesePide}

\* the menus: up to MaxItems different items, in any order
Menus ==
    UNION {{q \in [1..n -> ItemUniverse] : \A a, b \in 1..n : a # b => q[a] # q[b]} :
           n \in 0..MaxItems}

SimValues == {-5, 5, 10}

KeywordLists == {<<>>, <<"soup">>}

ConstraintSets ==
    {Constraints(<<>>, <<>>, ""),
     Constraints(<<>>, <<>>, "low"),
     Constraints(<<>>, <<"PEANUTS">>, "low"),
     Constraints(<<"Vegetarian">>, <<>>, ""),
     Constraints(<<"vegan">>, <<>>, ""),
     Constraints(<<"vegan", "vegetarian">>, <<>>, ""),
     Constraints(<<"vegan">>, <<"PEANUTS">>, "low")}

Perms(n) == {q \in [1..n -> 1..n] : \A a, b \in 1..n : a # b => q[a] # q[b]}

\* The ranking environments that can occur for the given arguments: a
\* similarity per item out of values (np.random.rand, in [0, 1), when the
\* query text is empty) and an argsort of the final scores.  When the
\* embedding fails nothing else is read.
RankEnvsOver(values, items, query_keywords, constraints) ==
    {RankEnv(FALSE, <<>>, <<>>)} \cup
    Only({UNION {Only({{RankEnv(TRUE, sims, order) :
                          order \in {q \in Perms(Len(items)) : IsArgsort(q, scores)}} :
                       scores \in {FinalScores(items, sims, constraints)}}) :
                 sims \in {f \in [1..Len(items) -> values] :
                              random => \A i \in 1..Len(items) : f[i] >= 0 /\ f[i] < 10}} :
          random \in {strip(QueryText(query_keywords, constraints)) = ""}})

RankEnvs(items, query_keywords, constraints) ==
    RankEnvsOver(SimValues, items, query_keywords, constraints)

\* the similarities drawn inside a chat session
SessionSimValues == {-5, 5}

UserMessages == {"hello", "up to you", "I want soup"}

\* The agent of the session: persona, restaurant and menu (agent.py 49-56)
Agent ==
    [persona_id |-> "ayla", name |-> "demo", display_name |-> "Demo Lokanta",
     menu |-> <<LentilSoup>>]

\* The environments of a turn behind the menu gate whose keyword completion
\* is kw: the grounded call happens only when the ranking gave candidates
\* (agent.py 393), so it is drawn only then.
MenuEnvs(values, agent, c1, kw) ==
    Only({UNION {{TurnEnv(c1, kw, rank, c2) :
                    c2 \in IF Len(lookup_candidates(agent.menu, keywords,
                                                    EmptyConstraints, rank)) = 0
                           THEN {NoCompletion} ELSE GroundedCompletions} :
                 rank \in RankEnvsOver(values, agent.menu, keywords,
                                       EmptyConstraints)} :
          keywords \in {extract_user_keywords(kw)}})

\* The environments of one turn with decision completion c1 and
\* similarities out of values.  The keyword call and the ranking pass
\* happen only behind the menu gate (agent.py 381), so they are drawn only
\* for the turns that pass it.
TurnEnvsOver(values, agent, history, user_message, c1) ==
    IF /\ c1.ok
       /\ MenuGate(DictGet(ParsedCompletion[c1.text].action_dict, "action", JStr("ASK")),
                   check_food_intent(history, user_message))
    THEN UNION {MenuEnvs(values, agent, c1, kw) : kw \in KeywordCompletions}
    ELSE {TurnEnv(c1, NoCompletion, NoRankEnv, NoCompletion)}

TurnEnvs(agent, history, user_message, c1) ==
    TurnEnvsOver(SessionSimValues, agent, history, user_message, c1)

NoResult ==
    [done |-> FALSE, message |-> "", c1 |-> NoCompletion,
     result |-> Result("", JStr("ASK"), <<>>, FALSE, NoOrder, FALSE,
                       Did(FALSE, <<>>, JStr(""), FALSE, FALSE))]

NoFinalOrder == [set |-> FALSE, value |-> NoOrder]

IdleRank == [called |-> FALSE, items |-> <<>>, query_keywords |-> <<>>,
             constraints |-> EmptyConstraints, top_k |-> 0, env |-> NoRankEnv]

NoRankResult == [raised |-> FALSE, items |-> <<>>]

NoParse == [called |-> FALSE, text |-> ""]

NoCacheCall ==
    [called |-> FALSE, file |-> "", menu |-> MenuJSON("", <<>>), model_embed |-> "",
     force_recompute |-> FALSE, env |-> CacheEnv(TRUE, TRUE, TRUE),
     cache_path |-> [base_dir |-> "", safe_name |-> "", content_hash |-> content_hash("")],
     existed |-> FALSE,
     raised |-> FALSE, embeddings |-> embed_texts("", <<>>), embed_calls |-> 0, hit |-> FALSE]

\* the two conversations that share the cache storage
Conversations == {1, 2}

\* the cache file is not there
NoFile == [exists |-> FALSE, cells |-> <<>>]

NoRaceCall ==
    [pc |-> "idle", model_embed |-> "", force_recompute |-> FALSE,
     embeddings |-> embed_texts("", <<>>), offset |-> 0, returned |-> <<>>,
     embed_calls |-> 0]

NoParsed == [action_dict |-> AskDict(""), reply_text |-> "", action_json |-> NoneStr]

Init ==
    /\ chat_history = <<>>
    /\ order_finalized = FALSE
    /\ final_order = NoFinalOrder
    /\ intent_seen = FALSE
    /\ last = NoResult
    /\ chat_historyB = <<>>
    /\ lastB = NoResult
    /\ rank_in = IdleRank
    /\ rank_out = NoRankResult
    /\ parse_in = NoParse
    /\ parse_out = NoParsed
    /\ cache_store = <<>>
    /\ cache_last = NoCacheCall
    /\ race_file = NoFile
    /\ race_call = [p \in Conversations |-> NoRaceCall]

(***************************************************************************)
(* The session loop (app.py 353-413)                                       *)
(***************************************************************************)
\* app.py 388-411: the history after the turn
HistoryAfter(history, prompt, r) ==
    history \o <<ChatTurn("user", prompt),
                 ChatTurn("assistant",
                          IF r.raised THEN "Bir hata olu^stu: e" ELSE r.reply_text)>>

\* the order is stored only when the turn had the local intent signal
FinalizesWithIntent(r) ==
    ~r.raised /\ IsAction(r.action, {"FINALIZE"}) /\ r.has_order /\ r.did.intent_clear

\* app.py 401: action == "FINALIZE" and maybe_order
Finalizes(r) == ~r.raised /\ IsAction(r.action, {"FINALIZE"}) /\ r.has_order

\* the record of the latest turn
Turn(prompt, c1, r) == [done |-> TRUE, message |-> prompt, c1 |-> c1, result |-> r]

\* the chat input shown whatever the state of the order
ChatInputAlways(finalized) == TRUE

\* app.py 354-375: the chat input is shown only while the order is not
\* finalized
ChatInputOpen(finalized) == ~finalized

\* One user turn: the chat input is accepted only while the order is not
\* finalized (app.py 354, 375); the prompt is appended, respond is called
\* with the history before it, the reply is appended, and a FINALIZE result
\* that carries an order ends the conversation.
UserTurn ==
    /\ ChatInputOpen(order_finalized)
    /\ Len(chat_history) < 2 * MaxTurns
    /\ \E prompt \in UserMessages, c1 \in DecisionCompletions :
         \E env \in TurnEnvs(Agent, chat_history, prompt, c1) :
            \E r \in {respond(Agent, chat_history, prompt, env)} :
               /\ chat_history' = HistoryAfter(chat_history, prompt, r)
               /\ order_finalized' = (order_finalized \/ Finalizes(r))
               /\ final_order' = IF Finalizes(r)
                                 THEN [set |-> TRUE, value |-> r.maybe_order]
                                 ELSE final_order
               /\ intent_seen' = (intent_seen \/ r.did.intent_clear)
               /\ last' = Turn(prompt, c1, r)
    /\ UNCHANGED <<pairVars, rankVars, parseVars, cacheVars, raceVars>>

\* app.reset_conversation (app.py 130-136), the sidebar's reset button
ResetConversation ==
    /\ chat_history # <<>>
    /\ chat_history' = <<>>
    /\ order_finalized' = FALSE
    /\ final_order' = NoFinalOrder
    /\ intent_seen' = FALSE
    /\ last' = NoResult
    /\ UNCHANGED <<pairVars, rankVars, parseVars, cacheVars, raceVars>>

Next == UserTurn \/ ResetConversation

Spec == Init /\ [][Next]_vars

(***************************************************************************)
(* Two sessions that receive the same user messages while the completion   *)
(* service answers each of them in its own way.                            *)
(***************************************************************************)
\* the similarities drawn in the two sessions
PairSimValues == {5}

PairCompletions ==
    {Completion(TRUE, "Hi!"),
     Completion(TRUE, "{\"action\":\"RECOMMEND\",\"intent_clear\":true} I recommend the soup.")}

PairTurn ==
    /\ Len(chat_history) < 2 * MaxTurns
    /\ \E prompt \in UserMessages, c1 \in PairCompletions, c1B \in PairCompletions :
         \E env \in TurnEnvsOver(PairSimValues, Agent, chat_history, prompt, c1),
            envB \in TurnEnvsOver(PairSimValues, Agent, chat_historyB, prompt, c1B) :
            \E r \in {respond(Agent, chat_history, prompt, env)},
               rB \in {respond(Agent, chat_historyB, prompt, envB)} :
               /\ chat_history' = HistoryAfter(chat_history, prompt, r)
               /\ intent_seen' = (intent_seen \/ r.did.intent_clear)
               /\ last' = Turn(prompt, c1, r)
               /\ chat_historyB' = HistoryAfter(chat_historyB, prompt, rB)
               /\ lastB' = Turn(prompt, c1B, rB)
    /\ UNCHANGED <<order_finalized, final_order, rankVars, parseVars, cacheVars, raceVars>>

PairReset ==
    /\ chat_history # <<>>
    /\ chat_history' = <<>>
    /\ intent_seen' = FALSE
    /\ last' = NoResult
    /\ chat_historyB' = <<>>
    /\ lastB' = NoResult
    /\ UNCHANGED <<order_finalized, final_order, rankVars, parseVars, cacheVars, raceVars>>

NextPair == PairTurn \/ PairReset

SpecPair == Init /\ [][NextPair]_vars

(***************************************************************************)
(* A longer conversation under fewer completion texts                      *)
(***************************************************************************)
LongCompletions == {Completion(TRUE, "Hi!"), Completion(TRUE, "{\"action\":\"LOOKUP\"}")}

\* a restaurant whose only dish is expensive and carries an allergen
NoodleBar == [Agent EXCEPT !.menu = <<PeanutNoodles>>]

LongMessages == UserMessages \cup {"soup, but I am allergic to peanuts"}

\* the user turn of app.py 374-413, as in UserTurn
LongTurn ==
    /\ ChatInputOpen(order_finalized)
    /\ Len(chat_history) < 2 * MaxLongTurns
    /\ \E prompt \in LongMessages, c1 \in LongCompletions :
         \E env \in TurnEnvsOver(PairSimValues, NoodleBar, chat_history, prompt, c1) :
            \E r \in {respond(NoodleBar, chat_history, prompt, env)} :
               /\ chat_history' = HistoryAfter(chat_history, prompt, r)
               /\ order_finalized' = (order_finalized \/ Finalizes(r))
               /\ final_order' = IF Finalizes(r)
                                 THEN [set |-> TRUE, value |-> r.maybe_order]
                                 ELSE final_order
               /\ intent_seen' = (intent_seen \/ r.did.intent_clear)
               /\ last' = Turn(prompt, c1, r)
    /\ UNCHANGED <<pairVars, rankVars, parseVars, cacheVars, raceVars>>

NextLong == LongTurn \/ ResetConversation

SpecLong == Init /\ [][NextLong]_vars

(***************************************************************************)
(* One ranking pass of match.rank_candidates on drawn arguments            *)
(***************************************************************************)
RankCall ==
    /\ ~rank_in.called
    /\ \E items \in Menus, query_keywords \in KeywordLists,
          constraints \in ConstraintSets :
         \E env \in RankEnvs(items, query_keywords, constraints), top_k \in 0..MaxK :
            /\ rank_in' = [called |-> TRUE, items |-> items,
                           query_keywords |-> query_keywords,
                           constraints |-> constraints, top_k |-> top_k, env |-> env]
            /\ rank_out' = rank_candidates(items, query_keywords, constraints, top_k, env)
    /\ UNCHANGED <<sessionVars, pairVars, parseVars, cacheVars, raceVars>>

RankReturn ==
    /\ rank_in.called
    /\ rank_in' = IdleRank
    /\ rank_out' = NoRankResult
    /\ UNCHANGED <<sessionVars, pairVars, parseVars, cacheVars, raceVars>>

NextRank == RankCall \/ RankReturn

SpecRank == Init /\ [][NextRank]_vars

(***************************************************************************)
(* One ranking pass over a menu whose prices are drawn                     *)
(***************************************************************************)
PriceStrings == {"", "market", "19.99 TL", "20 TL", "49.99 TL", "50 TL", "9 or 70"}

PricedDish(price) == MenuItem("Dish", price, <<"rice">>, <<"plain">>, <<>>)

\* the menus: up to MaxItems dishes of different prices
PricedMenus ==
    UNION {{Tuple([i \in 1..n |-> PricedDish(q[i])]) :
              q \in {f \in [1..n -> PriceStrings] : \A a, b \in 1..n : a # b => f[a] # f[b]}} :
           n \in 1..MaxItems}

PriceConstraintSets == {Constraints(<<>>, <<>>, ""), Constraints(<<>>, <<>>, "low")}

PriceSimValues == {-5, 5}

PriceRankCall ==
    /\ ~rank_in.called
    /\ \E items \in PricedMenus, query_keywords \in {<<"soup">>},
          constraints \in PriceConstraintSets :
         \E env \in RankEnvsOver(PriceSimValues, items, query_keywords, constraints),
            top_k \in 0..MaxK :
            /\ rank_in' = [called |-> TRUE, items |-> items,
                           query_keywords |-> query_keywords,
                           constraints |-> constraints, top_k |-> top_k, env |-> env]
            /\ rank_out' = rank_candidates(items, query_keywords, constraints, top_k, env)
    /\ UNCHANGED <<sessionVars, pairVars, parseVars, cacheVars, raceVars>>

NextPrice == PriceRankCall \/ RankReturn

SpecPrice == Init /\ [][NextPrice]_vars

(***************************************************************************)
(* One call of parse_action_from_response on a drawn completion text       *)
(***************************************************************************)
\* the elements of the JSON arrays that are drawn
ArrayElements ==
    {"\"allergy_or_diet\"", "\"Drink\"", "\"side dish\"", "\"other\"", "3", "[]",
     "{\"action\":\"RECOMMEND\"}"}

\* Texts a completion can carry where a decision is expected: a JSON array
\* of up to MaxElems elements, alone or followed by prose
ArrayTexts ==
    {"[" \o Join(q, ", ") \o "]" \o tail :
        q \in UNION {[1..n -> ArrayElements] : n \in 0..MaxElems},
        tail \in {"", " What would you like?"}}

\* the JSON values that are cut off, wrapped in prose or preceded by a
\* stray closing bracket
WholeValues == {"{\"a\": [1,2], \"b\": {\"c\": 1}}", "[{\"a\":1}, {\"b\":2}]"}

\* a JSON value cut off before its closing bracket
TruncatedTexts == UNION {{SubSeq(v, 1, n) : n \in 1..(Len(v) - 1)} : v \in WholeValues}

\* JSON values whose string literals hold brackets or braces
BracketValues ==
    {"{\"a\": \"x]\"}", "{\"a\": \"}\"}", "[\"]\"]", "{\"a\": \"\\\"{\"}", "[\"a[0]\"]",
     "{\"a\": \"[b]\"}"}

PlainValues == {"[1,2]", "{\"a\":1}", "[[1],[2]]", "{\"a\":{\"b\":1}}"}

Wrapped(values) ==
    {before \o v \o after : v \in values, before \in {"", "noise "}, after \in {"", " trailing"}}

StrayTexts == {stray \o " " \o v : stray \in {"]", "}"}, v \in PlainValues}

ExtractTexts ==
    TruncatedTexts \cup Wrapped(BracketValues) \cup Wrapped(PlainValues) \cup StrayTexts
       \cup {"[1,2,]bad then [1,2]", "no json here", "{\"a\":1,}bad then {\"a\":1}"}

\* agent.py 222-223 and 213-301: the JSON the response holds, the decision
\* and the reply
ParseCall ==
    /\ ~parse_in.called
    /\ \E text \in ArrayTexts \cup ExtractTexts :
         /\ parse_in' = [called |-> TRUE, text |-> text]
         /\ parse_out' = [action_dict |-> parse_action_from_response(strip(text)).action_dict,
                          reply_text |-> parse_action_from_response(strip(text)).reply_text,
                          action_json |-> extract_json_from_response(strip(text))]
    /\ UNCHANGED <<sessionVars, pairVars, rankVars, cacheVars, raceVars>>

ParseReturn ==
    /\ parse_in.called
    /\ parse_in' = NoParse
    /\ parse_out' = NoParsed
    /\ UNCHANGED <<sessionVars, pairVars, rankVars, cacheVars, raceVars>>

NextParse == ParseCall \/ ParseReturn

SpecParse == Init /\ [][NextParse]_vars

(***************************************************************************)
(* Calls of load_or_compute_embeddings on one cache storage                *)
(***************************************************************************)
EmbedModels == {"text-embedding-3-small", "text-embedding-3-large"}

\* the outcomes of the steps that the call takes
CacheEnvs(store, menu_json, force_recompute) ==
    Only({{CacheEnv(load_ok, save_ok, embed_ok) :
              load_ok \in (IF tries THEN BOOLEAN ELSE {TRUE}),
              save_ok \in BOOLEAN, embed_ok \in BOOLEAN} :
          tries \in {TriesLoad(store, CachePathOf[menu_json], force_recompute)}})

LoadOrCompute ==
    /\ \E mf \in MenuFiles, model_embed \in EmbedModels, force_recompute \in BOOLEAN :
         \E env \in CacheEnvs(cache_store, mf.menu, force_recompute) :
            \E r \in {load_or_compute_embeddings(cache_store, model_embed, mf.menu,
                                                 force_recompute, env)} :
               /\ cache_store' = r.store
               /\ cache_last' =
                     [called |-> TRUE, file |-> mf.file, menu |-> mf.menu,
                      model_embed |-> model_embed, force_recompute |-> force_recompute,
                      env |-> env, cache_path |-> CachePathOf[mf.menu],
                      existed |-> CachePathOf[mf.menu] \in DOMAIN cache_store,
                      raised |-> r.raised, embeddings |-> r.embeddings,
                      embed_calls |-> r.embed_calls, hit |-> r.hit]
    /\ UNCHANGED <<sessionVars, pairVars, rankVars, parseVars, raceVars>>

NextCache == LoadOrCompute

SpecCache == Init /\ [][NextCache]_vars

(***************************************************************************)
(* Two concurrent calls of load_or_compute_embeddings for one menu, on a   *)
(* storage and an embedding service that work.  Each call advances by the  *)
(* steps of match.py 103-123: the existence check, the load, the embedding *)
(* call, and np.save, which opens the file for writing (this empties it)   *)
(* and then writes the header and the rows one after the other at its own  *)
(* position in the file.  The storage starts empty, so a call that loads   *)
(* has opened the file after the single writer emptied it and sees what    *)
(* that writer has written so far: the load is one step.                   *)
(***************************************************************************)
RaceMenu == MenuJSON("Cafe Roma", <<LentilSoup, PorkRibs>>)

\* the parts of a .npy file: the header holds the number of rows, a row
\* holds the embedding of one text under one model, a hole is a range of
\* the file that nothing was written to
Header(count) == [kind |-> "header", model |-> "", text |-> "", count |-> count]

Row(model, text) == [kind |-> "row", model |-> model, text |-> text, count |-> 0]

Hole == [kind |-> "hole", model |-> "", text |-> "", count |-> 0]

\* the rows of a matrix
RowsOf(embeddings) ==
    Tuple([n \in 1..Len(embeddings.rows) |-> Row(embeddings.model, embeddings.rows[n])])

\* what np.save writes for a matrix
np_save(embeddings) == <<Header(Len(embeddings.rows))>> \o RowsOf(embeddings)

\* what np.load makes of the file: it raises on an empty file, on a bad
\* header and on fewer rows than the header announces
np_load(cells) ==
    Only({IF ok THEN [raised |-> FALSE, rows |-> Tuple(SubSeq(cells, 2, 1 + cells[1].count))]
          ELSE [raised |-> TRUE, rows |-> <<>>] :
          ok \in {/\ Len(cells) >= 1
                  /\ cells[1].kind = "header"
                  /\ Len(cells) >= 1 + cells[1].count
                  /\ \A n \in 2..(1 + cells[1].count) : cells[n].kind = "row"}})

\* writing one part at a position of the file
WriteAt(cells, pos, cell) ==
    Tuple([n \in 1..(IF pos > Len(cells) THEN pos ELSE Len(cells)) |->
              IF n = pos THEN cell ELSE IF n <= Len(cells) THEN cells[n] ELSE Hole])

\* match.py 103-106: the call starts, before the other call has returned,
\* and checks whether the file exists
RaceCall(p) ==
    /\ race_call[p].pc = "idle"
    /\ \A q \in Conversations : race_call[q].pc # "done"
    /\ \E model_embed \in EmbedModels, force_recompute \in BOOLEAN :
         race_call' = [race_call EXCEPT ![p] =
            [NoRaceCall EXCEPT !.model_embed = model_embed,
                               !.force_recompute = force_recompute,
                               !.pc = IF ~force_recompute /\ race_file.exists
                                      THEN "load" ELSE "embed"]]
    /\ UNCHANGED <<sessionVars, pairVars, rankVars, parseVars, cacheVars, race_file>>

\* match.py 107-110: np.load returns the matrix or raises, and then the
\* call goes on to compute
RaceLoad(p) ==
    /\ race_call[p].pc = "load"
    /\ \E r \in {np_load(race_file.cells)} :
         race_call' = [race_call EXCEPT ![p] =
            IF r.raised THEN [@ EXCEPT !.pc = "embed"]
            ELSE [@ EXCEPT !.pc = "done", !.returned = r.rows]]
    /\ UNCHANGED <<sessionVars, pairVars, rankVars, parseVars, cacheVars, race_file>>

\* match.py 112-114
RaceEmbed(p) ==
    /\ race_call[p].pc = "embed"
    /\ race_call' = [race_call EXCEPT ![p] =
          [@ EXCEPT !.pc = "open",
                    !.embeddings = embed_texts(race_call[p].model_embed,
                                               ItemTextsOf[RaceMenu]),
                    !.embed_calls = @ + 1]]
    /\ UNCHANGED <<sessionVars, pairVars, rankVars, parseVars, cacheVars, race_file>>

\* match.py 117-119: np.save opens the file for writing
RaceOpen(p) ==
    /\ race_call[p].pc = "open"
    /\ race_file' = [exists |-> TRUE, cells |-> <<>>]
    /\ race_call' = [race_call EXCEPT ![p] = [@ EXCEPT !.pc = "write", !.offset = 0]]
    /\ UNCHANGED <<sessionVars, pairVars, rankVars, parseVars, cacheVars>>

\* match.py 119-123: np.save writes the next part; after the last one the
\* call returns the matrix it computed
RaceWrite(p) ==
    /\ race_call[p].pc = "write"
    /\ \E bytes \in {np_save(race_call[p].embeddings)} :
         /\ race_file' = [race_file EXCEPT !.cells =
                             WriteAt(@, race_call[p].offset + 1,
                                     bytes[race_call[p].offset + 1])]
         /\ race_call' = [race_call EXCEPT ![p] =
               IF @.offset + 1 = Len(bytes)
               THEN [@ EXCEPT !.pc = "done", !.offset = @ + 1,
                              !.returned = RowsOf(race_call[p].embeddings)]
               ELSE [@ EXCEPT !.offset = @ + 1]]
    /\ UNCHANGED <<sessionVars, pairVars, rankVars, parseVars, cacheVars>>

NextRace ==
    \E p \in Conversations :
       RaceCall(p) \/ RaceLoad(p) \/ RaceEmbed(p) \/ RaceOpen(p) \/ RaceWrite(p)

SpecRace == Init /\ [][NextRace]_vars

(***************************************************************************)
(* The claims                                                              *)
(***************************************************************************)
\* the positions of the candidate-carrying (grounded) completion calls of a turn
GroundedCalls(r) == {n \in 1..Len(r.did.calls) : r.did.calls[n].kind = "grounded"}

\* C1: in every turn of respond the returned candidates are non-empty, and
\* the grounded second completion call is issued, only if the local intent
\* signal is true and the first completion's action is LOOKUP, RECOMMEND or
\* REFINE; the first call's prompt never carries candidates and no call but
\* the grounded one does; with local intent false and the decision
\* RECOMMEND the candidates stay empty and the first call is the only one.
C1_MenuGated ==
    last.done =>
        LET r == last.result IN
        /\ (r.candidates # <<>> \/ GroundedCalls(r) # {})
              => (r.did.intent_clear /\ IsAction(r.did.decision, MenuActions))
        /\ r.did.calls[1].kind = "decision"
        /\ \A n \in 1..Len(r.did.calls) :
              r.did.calls[n].system.candidates_json # <<>> => n \in GroundedCalls(r)
        /\ (~r.did.intent_clear /\ IsAction(r.did.decision, {"RECOMMEND"}))
              => (r.candidates = <<>> /\ Len(r.did.calls) = 1)

\* "hello" on an empty history, answered with a RECOMMEND decision: the
\* gate stays closed
C1_Witness ==
    /\ last.done
    /\ last.message = "hello"
    /\ Len(chat_history) = 2
    /\ ~last.result.did.intent_clear
    /\ IsAction(last.result.did.decision, {"RECOMMEND"})
    /\ last.result.action = JStr("RECOMMEND")
    /\ last.result.candidates = <<>>
    /\ Len(last.result.did.calls) = 1

\* C2: two sessions that received the same user messages, whatever the
\* completion service answered in each, have the same local intent signal
\* in every turn.
C2_IntentIndependentOfReplies ==
    (last.done /\ lastB.done)
        => last.result.did.intent_clear = lastB.result.did.intent_clear

\* the item carries an allergen of the avoid-list, compared case-insensitively
SharesAllergen(item, avoid_allergens) ==
    SeqSet(LowerAll(item.allergens)) \cap SeqSet(LowerAll(avoid_allergens)) # {}

\* C3: no item returned by rank_candidates shares an allergen with the
\* avoid-list (compared case-insensitively), whatever the similarities, the
\* price preference and k.
C3_AllergenNeverReturned ==
    rank_in.called =>
        \A n \in 1..Len(rank_out.items) :
            ~SharesAllergen(rank_out.items[n], rank_in.constraints.avoid_allergens)

\* a pass over a menu with an item that carries an avoided allergen in
\* another case and has the largest similarity, under the price preference
\* "low", that returns another item
C3_Witness ==
    /\ rank_in.called
    /\ rank_in.env.embed_ok
    /\ rank_in.constraints.price_preference = "low"
    /\ rank_in.top_k >= 1
    /\ \E i \in 1..Len(rank_in.items) :
          /\ SharesAllergen(rank_in.items[i], rank_in.constraints.avoid_allergens)
          /\ ~AllergenExcludedCaseSensitive(rank_in.items[i],
                                            rank_in.constraints.avoid_allergens)
          /\ \A j \in 1..Len(rank_in.items) : rank_in.env.sims[j] <= rank_in.env.sims[i]
          /\ rank_in.env.sims[i] = 10
    /\ Len(rank_out.items) >= 1

\* the exclusion vocabulary of a lower-cased diet tag
DietVocabulary(tag) ==
    IF tag = "vegetarian" THEN MeatTerms
    ELSE IF tag = "vegan" THEN NonVeganTerms
    ELSE {}

\* the lower-cased name, a keyword or an ingredient of the item contains a term
Mentions(item, terms) ==
    \E part \in {item.name} \cup SeqSet(item.keywords) \cup SeqSet(item.ingredients) :
        \E text \in {lower(part)} :
            \E t \in terms : Contains(text, t)

\* C4: no item returned by rank_candidates mentions, in its lower-cased
\* name, keywords or ingredients, a term of the exclusion vocabulary of a
\* requested diet tag (vegetarian, vegan, in any case), also when several
\* tags are requested.
C4_DietVocabularyNeverReturned ==
    rank_in.called =>
        \A n \in 1..Len(rank_out.items), d \in 1..Len(rank_in.constraints.diet) :
            ~Mentions(rank_out.items[n], DietVocabulary(lower(rank_in.constraints.diet[d])))

\* two tags requested, an item that only the second tag's vocabulary
\* excludes has the largest similarity, and another item is returned
C4_Witness ==
    /\ rank_in.called
    /\ rank_in.env.embed_ok
    /\ rank_in.constraints.diet = <<"vegan", "vegetarian">>
    /\ rank_in.top_k >= 1
    /\ \E i \in 1..Len(rank_in.items) :
          /\ Mentions(rank_in.items[i], MeatTerms)
          /\ ~Mentions(rank_in.items[i], NonVeganTerms)
          /\ rank_in.env.sims[i] = 10
    /\ Len(rank_out.items) >= 1

\* C5: the vegan vocabulary contains the vegetarian one: every item the
\* filter drops under diet "vegetarian" is dropped under diet "vegan" too.
C5_VeganDropsWhatVegetarianDrops ==
    rank_in.called =>
        \A n \in 1..Len(rank_in.items) :
            ~apply_constraints_filter(rank_in.items,
                                      Constraints(<<"vegetarian">>, <<>>, ""))[n]
               => ~apply_constraints_filter(rank_in.items,
                                            Constraints(<<"vegan">>, <<>>, ""))[n]

\* the JSON object a text starts with, up to its first closing brace
DecisionObject(text) == json_loads(Sub(text, 1, FindFirst(text, 1, {"}"})))

\* the text starts with a decision object in the format of the prompt
\* (prompts.py 81-86): the keys action, intent_clear, need_slots (an array)
\* and notes, followed by prose
IsPromptFormat(text) ==
    LET o == DecisionObject(text) IN
    /\ o.ok
    /\ o.val.t = "dict"
    /\ o.val.keys = <<"action", "intent_clear", "need_slots", "notes">>
    /\ DictGet(o.val, "need_slots", JFalse).t = "list"
    /\ FindFirst(text, 1, {"}"}) < Len(text)

\* C6: when the decision completion starts with a decision object in the
\* prompt's format, followed by prose, respond's action is the action
\* field of that object.
C6_PromptFormatDecisionTaken ==
    (last.done /\ last.c1.ok /\ IsPromptFormat(last.c1.text))
        => last.result.action = DictGet(DecisionObject(last.c1.text).val, "action",
                                        JStr("ASK"))

\* C7: whenever the turn's decision is FINALIZE, respond returns the action
\* FINALIZE with an Order of at least one item, empty candidates and the
\* fixed confirmation reply, and the session is finalized with that Order;
\* respond returns an Order if and only if its action is FINALIZE.
C7_FinalizeGivesOrder ==
    last.done =>
        LET r == last.result IN
        /\ IsAction(r.did.decision, {"FINALIZE"}) =>
              /\ r.action = JStr("FINALIZE")
              /\ r.has_order
              /\ Len(r.maybe_order.order) >= 1
              /\ r.candidates = <<>>
              /\ r.reply_text = ConfirmationReply
              /\ order_finalized
              /\ final_order = [set |-> TRUE, value |-> r.maybe_order]
        /\ r.has_order <=> IsAction(r.action, {"FINALIZE"})
        /\ ~r.has_order => r.maybe_order = NoOrder

\* a FINALIZE turn after an ordinary one
C7_Witness ==
    /\ last.done
    /\ Len(chat_history) = 4
    /\ IsAction(last.result.did.decision, {"FINALIZE"})
    /\ order_finalized
    /\ Len(final_order.value.order) = 1
    /\ chat_history[4].content = ConfirmationReply

\* C8 as stated: an Order is materialized only in a conversation where some
\* turn, the current or an earlier one, had the local intent signal.
C8_OrderOnlyAfterIntent == final_order.set => intent_seen

\* C8 amended: an Order is stored exactly when the session is finalized,
\* which is exactly after a turn whose decision is FINALIZE, whether or not
\* the local intent signal was ever true in the conversation; the stored
\* Order is the one that turn returned.
C8_OrderExactlyByFinalize ==
    /\ final_order.set <=> order_finalized
    /\ order_finalized <=> (last.done /\ IsAction(last.result.did.decision, {"FINALIZE"}))
    /\ order_finalized => final_order.value = last.result.maybe_order
    /\ ~final_order.set => final_order = NoFinalOrder

\* an Order stored in a conversation no turn of which had the intent signal
C8_Witness ==
    /\ order_finalized
    /\ final_order.set
    /\ ~intent_seen
    /\ last.message = "hello"

\* C9: respond never lets an exception out; when a completion call fails
\* the turn returns the apology, ASK, no candidates and no Order, and the
\* session is not finalized, so that the next turn is accepted.
C9_FailureGivesApology ==
    last.done =>
        LET r == last.result IN
        /\ ~r.raised
        /\ r.did.call_failed =>
              /\ r.reply_text = ApologyReply
              /\ r.action = JStr("ASK")
              /\ r.candidates = <<>>
              /\ ~r.has_order
              /\ ~order_finalized
              /\ final_order = NoFinalOrder
              /\ chat_history[Len(chat_history)] = ChatTurn("assistant", ApologyReply)

\* a failed turn followed by a turn that consults the menu
C9_Witness ==
    /\ last.done
    /\ Len(chat_history) = 4
    /\ chat_history[2].content = ApologyReply
    /\ ~last.result.did.call_failed
    /\ last.result.candidates # <<>>
    /\ GroundedCalls(last.result) # {}

ParsedJson == json_loads(extract_json_from_response(parse_in.text).s)

\* the extracted JSON of the text is a sequence without a mapping element
IsPlainSequence ==
    /\ parse_in.called
    /\ extract_json_from_response(parse_in.text).found
    /\ ParsedJson.ok
    /\ ParsedJson.val.t = "list"
    /\ \A n \in 1..Len(ParsedJson.val.items) : ParsedJson.val.items[n].t # "dict"

\* the note of the first class of terms, in the order diet or allergy,
\* drink, side, that occurs in the lower-cased extracted JSON, the generic
\* note when none does
ClassNote ==
    LET text == lower(extract_json_from_response(parse_in.text).s) IN
    IF \E w \in {"allergy", "diet", "preference"} : Contains(text, w)
    THEN "clarify_diet_allergy"
    ELSE IF \E w \in {"drink", "beverage"} : Contains(text, w) THEN "clarify_drink"
    ELSE IF \E w \in {"side", "accompaniment"} : Contains(text, w) THEN "clarify_side"
    ELSE "general_clarification"

\* the decision is ASK with intent_clear false: it passes neither the menu
\* gate of respond nor its FINALIZE branch
IsSafeAsk(action_dict) ==
    /\ action_dict.t = "dict"
    /\ DictGet(action_dict, "action", JStr("")) = JStr("ASK")
    /\ DictGet(action_dict, "intent_clear", JStr("")) = JFalse
    /\ ~MenuGate(DictGet(action_dict, "action", JStr("ASK")), TRUE)
    /\ ~IsAction(DictGet(action_dict, "action", JStr("ASK")), {"FINALIZE"})

\* C11 as stated: for every response whose extracted JSON is a sequence
\* without a mapping element, the empty sequence included, the decision is
\* ASK with intent_clear false and its note is the note of the first
\* matching class (diet or allergy, drink, side, generic).
C11_PlainSequenceAsksByClass ==
    IsPlainSequence =>
        /\ IsSafeAsk(parse_out.action_dict)
        /\ DictGet(parse_out.action_dict, "notes", JStr("")) = JStr(ClassNote)

\* C11 amended: such a response gives ASK with intent_clear false, never a
\* decision that opens the menu or finalizes; the note is the note of the
\* first matching class when the sequence has an element, and the default
\* note "fallback" when the sequence is empty.
C11_PlainSequenceAsks ==
    IsPlainSequence =>
        /\ IsSafeAsk(parse_out.action_dict)
        /\ DictGet(parse_out.action_dict, "notes", JStr("")) =
              JStr(IF Len(ParsedJson.val.items) = 0 THEN "fallback" ELSE ClassNote)

\* a sequence that names a drink before a diet term: the diet note wins
C11_Witness ==
    /\ IsPlainSequence
    /\ parse_in.text = "[\"Drink\", \"allergy_or_diet\"] What would you like?"
    /\ DictGet(parse_out.action_dict, "notes", JStr("")) = JStr("clarify_diet_allergy")

\* the closed set of actions of a Decision
ActionSet == {"ASK", "LOOKUP", "RECOMMEND", "REFINE", "FINALIZE"}

\* C12: the action respond returns is always one of ASK, LOOKUP, RECOMMEND,
\* REFINE, FINALIZE; a decision object whose action is missing, not a string
\* or outside the set is turned into ASK.
C12_ActionInClosedSet ==
    last.done => IsAction(last.result.action, ActionSet)

\* the adjusted scores and the hard filter of the ranking pass
RankScores == FinalScores(rank_in.items, rank_in.env.sims, rank_in.constraints)

RankMask == apply_constraints_filter(rank_in.items, rank_in.constraints)

\* the position of a returned item in the menu (the items of a drawn menu
\* are different)
MenuIndex(item) == CHOOSE i \in 1..Len(rank_in.items) : rank_in.items[i] = item

RankRan == rank_in.called /\ Len(rank_in.items) > 0 /\ rank_in.env.embed_ok

\* C13: rank_candidates returns at most k items, each a different item of
\* the menu that passed the hard filter, in non-increasing order of
\* adjusted score.
C13_AtMostKPassingDescending ==
    rank_in.called =>
        /\ Len(rank_out.items) <= rank_in.top_k
        /\ RankRan =>
             LET out == rank_out.items
                 scores == RankScores
                 mask == RankMask
             IN  /\ \A n \in 1..Len(out) :
                       /\ out[n] \in SeqSet(rank_in.items)
                       /\ mask[MenuIndex(out[n])]
                 /\ \A n, m \in 1..Len(out) :
                       n < m => /\ out[n] # out[m]
                                /\ scores[MenuIndex(out[n])] >= scores[MenuIndex(out[m])]

\* two items returned, the second of the menu first because it scores higher
C13_Witness ==
    /\ RankRan
    /\ rank_in.top_k = 2
    /\ Len(rank_out.items) = 2
    /\ rank_out.items[1] = rank_in.items[2]
    /\ rank_in.env.sims[2] > rank_in.env.sims[1]

\* C14: ranking is stable on ties: of two returned items with the same
\* adjusted score the earlier of the menu comes first, and when a tie
\* straddles the k cutoff the earlier item of the menu is the one kept.
C14_StableOnTies ==
    RankRan =>
        LET out == rank_out.items
            scores == RankScores
        IN  /\ \A n, m \in 1..Len(out) :
                  (n < m /\ scores[MenuIndex(out[n])] = scores[MenuIndex(out[m])])
                      => MenuIndex(out[n]) < MenuIndex(out[m])
            /\ \A i, j \in 1..Len(rank_in.items) :
                  (i < j /\ scores[i] = scores[j] /\ rank_in.items[j] \in SeqSet(out))
                      => rank_in.items[i] \in SeqSet(out)

\* C15: an item that passes the hard filter is left out only by the k
\* cutoff: when at most k items pass the filter all of them are returned,
\* whatever their similarity.
C15_PassingItemsReturned ==
    RankRan =>
        LET mask == RankMask IN
        Cardinality({i \in 1..Len(rank_in.items) : mask[i]}) <= rank_in.top_k
            => \A i \in 1..Len(rank_in.items) :
                  mask[i] => rank_in.items[i] \in SeqSet(rank_out.items)

\* the value of the first numeric token of a price string, -1 without one
FirstNumber(price) ==
    IF \A d \in 1..Len(price) : ~IsDigit(Char(price, d)) THEN -1
    ELSE LET d == CHOOSE n \in 1..Len(price) :
                      /\ IsDigit(Char(price, n))
                      /\ \A b \in 1..(n - 1) : ~IsDigit(Char(price, b))
             e == CHOOSE n \in d..Len(price) :
                      /\ \A b \in d..n : IsDigit(Char(price, b))
                      /\ n < Len(price) => ~IsDigit(Char(price, n + 1))
         IN  DigitsValue(SubSeq(price, d, e), 0)

\* the ranking pass with the price preference taken away, the similarities
\* kept: the sets of items it can return
UnpenalisedResults ==
    LET none == [rank_in.constraints EXCEPT !.price_preference = ""]
        scores == FinalScores(rank_in.items, rank_in.env.sims, none)
    IN  {SeqSet(rank_candidates(rank_in.items, rank_in.query_keywords, none, rank_in.top_k,
                                RankEnv(TRUE, rank_in.env.sims, order)).items) :
            order \in {q \in Perms(Len(rank_in.items)) : IsArgsort(q, scores)}}

\* C16: with price preference "low" the score of exactly the items whose
\* first numeric price token is at least 50 is multiplied by 0.7 and no
\* other score changes (below 20 is the low bucket, below 50 the medium
\* one; an item without a price or without a numeric token is not
\* penalised); and for k at least the number of items the set of returned
\* items is the same with and without the penalty.
C16_PriceIsSoft ==
    RankRan =>
        LET scores == RankScores
            mask == RankMask
        IN  /\ \A i \in 1..Len(rank_in.items) :
                  LET number == FirstNumber(rank_in.items[i].price) IN
                  /\ price_bucket(rank_in.items[i].price) =
                        (IF number < 0 THEN ""
                         ELSE IF number < 20 THEN "low"
                         ELSE IF number < 50 THEN "medium" ELSE "high")
                  /\ mask[i] =>
                        scores[i] = (IF rank_in.constraints.price_preference = "low"
                                        /\ number >= 50
                                     THEN rank_in.env.sims[i] * 7
                                     ELSE rank_in.env.sims[i] * 10)
            /\ rank_in.top_k >= Len(rank_in.items)
                  => UnpenalisedResults = {SeqSet(rank_out.items)}

\* under the preference "low" a dish at 50 is penalised, a dish at 49.99 is
\* not, and both are returned
C16_Witness ==
    /\ RankRan
    /\ rank_in.constraints.price_preference = "low"
    /\ rank_in.top_k = 2
    /\ rank_in.items = <<PricedDish("50 TL"), PricedDish("49.99 TL")>>
    /\ rank_in.env.sims = <<5, 5>>
    /\ RankScores = <<35, 50>>
    /\ rank_out.items = <<PricedDish("49.99 TL"), PricedDish("50 TL")>>

\* a call during which the cache storage and the embedding service work
WorkingCall(call) ==
    call.called /\ call.env.load_ok /\ call.env.save_ok /\ call.env.embed_ok

\* C17: with working cache storage, a call of load_or_compute_embeddings
\* that follows a call for the same menu content returns the identical
\* matrix and is a cache hit that does not invoke the embedding function;
\* the call before it invoked it once when no entry existed and not at all
\* otherwise, so any number of calls invokes it once in total.
C17_CacheRoundTrip ==
    [][(/\ WorkingCall(cache_last)
        /\ WorkingCall(cache_last')
        /\ cache_last'.menu = cache_last.menu
        /\ ~cache_last'.force_recompute)
          => /\ cache_last'.embeddings = cache_last.embeddings
             /\ cache_last'.hit
             /\ cache_last'.embed_calls = 0
             /\ cache_last.embed_calls = (IF cache_last.hit THEN 0 ELSE 1)
             /\ ~cache_last.existed => cache_last.embed_calls = 1]_vars

\* a hit on the entry that a call for the same content from another file
\* stored: the matrix of the two items comes back without an embedding call
C17_Witness ==
    /\ WorkingCall(cache_last)
    /\ cache_last.file = "menus/copy.json"
    /\ cache_last.existed /\ cache_last.hit
    /\ cache_last.embed_calls = 0
    /\ cache_last.embeddings = embed_texts(cache_last.model_embed,
                                           <<"lentil soup lentils soup", "pork ribs pork bbq">>)
    /\ cache_store[cache_last.cache_path] = cache_last.embeddings

\* C18: two menus of the same restaurant that hold the same items in a
\* different order get the same cache storage path.
C18_PathIgnoresItemOrder ==
    [][(/\ cache_last.called /\ cache_last'.called
        /\ cache_last'.menu.restaurant = cache_last.menu.restaurant
        /\ Len(cache_last'.menu.items) = Len(cache_last.menu.items)
        /\ SeqSet(cache_last'.menu.items) = SeqSet(cache_last.menu.items))
          => cache_last'.cache_path = cache_last.cache_path]_vars

\* the two item lists differ in the name of a single item and in nothing else
DifferInOneName(items, others) ==
    /\ Len(items) = Len(others)
    /\ \E i \in 1..Len(items) :
          /\ items[i].name # others[i].name
          /\ [items[i] EXCEPT !.name = others[i].name] = others[i]
          /\ \A j \in 1..Len(items) : j # i => items[j] = others[j]

\* the normalized name of each restaurant that is drawn
NormalizedName ==
    Table([name \in {mf.menu.restaurant.name : mf \in MenuFiles} |-> safe_name(name)])

\* C19: the cache storage path is a function of the item content and the
\* normalized restaurant name only, whatever file the menu came from; and
\* two menus of the same restaurant that differ in a single item's name get
\* different paths.
C19_PathSeparatesContent ==
    [][(cache_last.called /\ cache_last'.called)
          => /\ (/\ cache_last'.menu.items = cache_last.menu.items
                 /\ NormalizedName[cache_last'.menu.restaurant.name]
                       = NormalizedName[cache_last.menu.restaurant.name])
                   => cache_last'.cache_path = cache_last.cache_path
             /\ (/\ cache_last'.menu.restaurant = cache_last.menu.restaurant
                 /\ DifferInOneName(cache_last.menu.items, cache_last'.menu.items))
                   => cache_last'.cache_path # cache_last.cache_path]_vars

\* the menu with the renamed item is called for while the entry of the
\* original menu is stored: no entry exists at its path
C19_Witness ==
    /\ cache_last.called
    /\ cache_last.file = "menus/stew.json"
    /\ ~cache_last.existed
    /\ \E mf \in MenuFiles :
          /\ mf.file = "menus/roma.json"
          /\ DifferInOneName(mf.menu.items, cache_last.menu.items)
          /\ CachePathOf[mf.menu] \in DOMAIN cache_store
          /\ CachePathOf[mf.menu] # cache_last.cache_path

\* C20: load_or_compute_embeddings returns a matrix with one row per item
\* of the menu, of the dimension of the embedding model in use; a stored
\* entry that does not fit is recomputed, never returned.
C20_MatrixFitsMenuAndModel ==
    (cache_last.called /\ ~cache_last.raised) =>
        /\ Len(cache_last.embeddings.rows) = Len(cache_last.menu.items)
        /\ cache_last.embeddings.model = cache_last.model_embed

\* C21: an entry of the cache is never changed or replaced: whatever is
\* stored at a path before a call of load_or_compute_embeddings is stored
\* there after it, and content is written only to a path without an entry.
C21_EntriesNeverReplaced ==
    [][\A path \in DOMAIN cache_store :
          path \in DOMAIN cache_store' /\ cache_store'[path] = cache_store[path]]_vars

\* the matrix of one batched embedding call over all items of the menu
FreshMatrix(call) ==
    [model |-> call.model_embed,
     rows |-> Tuple([n \in 1..Len(call.menu.items) |-> build_item_text(call.menu.items[n])])]

\* C22: a failure to load an existing entry, to create the directory or to
\* write the entry is never fatal: the call raises only when the embedding
\* function fails, and whenever it does not return a loaded entry it returns
\* the matrix of one batched embedding call over all items.
C22_CacheFailuresNotFatal ==
    cache_last.called =>
        /\ cache_last.raised => (~cache_last.env.embed_ok /\ ~cache_last.hit)
        /\ cache_last.env.embed_ok => ~cache_last.raised
        /\ (~cache_last.raised /\ ~cache_last.hit) =>
              /\ cache_last.embeddings = FreshMatrix(cache_last)
              /\ cache_last.embed_calls = 1
        /\ (cache_last.existed /\ ~cache_last.force_recompute /\ ~cache_last.env.load_ok)
              => ~cache_last.hit

\* an entry exists, loading it fails and writing fails: the fresh matrix of
\* the two items is returned
C22_Witness ==
    /\ cache_last.called
    /\ cache_last.existed /\ ~cache_last.force_recompute
    /\ ~cache_last.env.load_ok /\ ~cache_last.env.save_ok /\ cache_last.env.embed_ok
    /\ ~cache_last.raised
    /\ cache_last.embed_calls = 1
    /\ cache_last.embeddings = FreshMatrix(cache_last)
    /\ Len(cache_last.embeddings.rows) = 2

\* the text is a JSON array or object: it starts with a bracket or a brace
\* and parses
IsJsonContainer(text) ==
    /\ Char(text, 1) \in {"[", "{"}
    /\ json_loads(text).ok
    /\ json_loads(text).val.t \in {"list", "dict"}

IsSpanOf(part, text) ==
    \E i \in 1..Len(text) : \E j \in i..Len(text) : SubSeq(text, i, j) = part

\* the complete matrix of the menu under a model, one row per item
MatrixOf(model_embed) == RowsOf(embed_texts(model_embed, ItemTextsOf[RaceMenu]))

\* C23: when two conversations run load_or_compute_embeddings concurrently
\* for the same menu, under every interleaving each call that has finished
\* has returned the complete matrix of the menu (one row per item), and once
\* both have finished the entry that is stored is that matrix as np.save
\* writes it.
C23_RacingCallsAgree ==
    /\ \A p \in Conversations :
          race_call[p].pc = "done" =>
             \E model_embed \in EmbedModels : race_call[p].returned = MatrixOf(model_embed)
    /\ (\A p \in Conversations : race_call[p].pc = "done") =>
          \A p \in Conversations :
             race_file.cells = <<Header(Len(RaceMenu.items))>> \o race_call[p].returned

C25_BracketsInStrings ==
    parse_in.called =>
        \A v \in BracketValues :
            parse_in.text \in Wrapped({v}) => parse_out.action_json = Some(v)

\* C26: the first bracket-balanced span that parses is returned: a span that
\* fails to parse is skipped, an object in prose is returned exactly, a
\* text without array or object gives absent, also when a stray closing
\* bracket precedes the JSON value.
C26_FirstParsingSpan ==
    parse_in.called =>
        /\ parse_in.text = "[1,2,]bad then [1,2]" => parse_out.action_json = Some("[1,2]")
        /\ parse_in.text = "noise {\"a\":1} trailing" => parse_out.action_json = Some("{\"a\":1}")
        /\ parse_in.text = "no json here" => ~parse_out.action_json.found
        /\ \A v \in PlainValues :
              parse_in.text \in Wrapped({v}) \cup {"] " \o v, "} " \o v}
                 => parse_out.action_json = Some(v)

\* C27: the reply of a turn is never empty nor only whitespace, on every
\* path of respond (provisional reply, grounded reply, FINALIZE
\* confirmation, exception fallback); a residue that is empty after the JSON
\* is stripped is replaced by the fixed fallback prompt.
C27_ReplyNeverEmpty ==
    last.done =>
        /\ strip(last.result.reply_text) # ""
        /\ chat_history[Len(chat_history)].content = last.result.reply_text
        /\ last.c1.ok => strip(ParsedCompletion[last.c1.text].reply_text) # ""

\* a decision completion that is a JSON object and nothing else, in a turn
\* without intent: the reply is the fallback prompt
C27_Witness ==
    /\ last.done
    /\ last.c1 = Completion(TRUE, "{\"action\":\"LOOKUP\"}")
    /\ ~last.result.did.intent_clear
    /\ last.result.reply_text = FallbackReply

\* C28: ORDER_FINALIZED is terminal within a conversation: once the order
\* is finalized no user turn is accepted and respond is not called, until
\* the conversation is reset; the final Order, once set, is never changed
\* within the conversation.
C28_FinalizedIsTerminal ==
    [][(order_finalized =>
          (\/ UNCHANGED <<chat_history, order_finalized, final_order, last>>
           \/ (chat_history' = <<>> /\ ~order_finalized' /\ final_order' = NoFinalOrder)))
       /\ ((final_order.set /\ final_order'.set) => final_order' = final_order)
       /\ (final_order.set <=> order_finalized)]_vars

\* the order is finalized by the first turn, when the bound on the turns
\* would still admit another one
C28_Witness ==
    /\ order_finalized
    /\ final_order.set
    /\ Len(chat_history) = 2
    /\ Len(chat_history) < 2 * MaxTurns
    /\ IsAction(last.result.action, {"FINALIZE"})

\* C29: the gate is monotone within a conversation: a turn that follows a
\* turn with local intent clear has local intent clear too, and once a turn
\* has had it a later LOOKUP, RECOMMEND or REFINE decision is never refused
\* candidates for lack of intent.
C29_GateMonotone ==
    [][(last'.done /\ Len(chat_history') = Len(chat_history) + 2) =>
          /\ (last.done /\ last.result.did.intent_clear) => last'.result.did.intent_clear
          /\ intent_seen => last'.result.did.intent_clear]_vars

\* the turn reached the ranker: the keyword call was made
ReachedRanker(r) == \E n \in 1..Len(r.did.calls) : r.did.calls[n].kind = "keywords"

\* C30: in every turn that reaches the ranker respond passes empty
\* constraints whatever the user said: the hard filter excludes no item and
\* the price penalty is not applied, so with similarities that are not
\* negative the candidates are all the items of the menu, also an item that
\* carries an allergen the user named, and they are given to the grounded
\* completion call (and returned unless that call fails).
C30_RankerGetsNoConstraints ==
    (last.done /\ ReachedRanker(last.result) /\ ~last.result.did.rank_raised) =>
        /\ \E n \in 1..Len(last.result.did.calls) :
              /\ last.result.did.calls[n].kind = "grounded"
              /\ last.result.did.calls[n].system = build_system_prompt(NoodleBar.menu)
        /\ ~last.result.did.call_failed => last.result.candidates = NoodleBar.menu

\* the user names the allergen that the dish carries and asks for a low
\* price, and the dish is a candidate of the turn
C30_Witness ==
    /\ last.done
    /\ Contains(last.message, "allergic to peanuts")
    /\ ReachedRanker(last.result)
    /\ ~last.result.did.call_failed
    /\ last.result.candidates = <<PeanutNoodles>>
    /\ SharesAllergen(PeanutNoodles, <<"peanuts">>)
    /\ price_bucket(PeanutNoodles.price) = "high"

====
